---- MODULE Spec2Model ----
(***************************************************************************)
(* Feature calibration and alignment of JUMPm (featureAlignment2.py).      *)
(*                                                                         *)
(* A feature is a record [index, mz, z, RT, intensity].  A feature table   *)
(* (a pandas DataFrame) is a sequence of features; after                   *)
(* sort_values(..., ignore_index = True) the row label of a feature is its *)
(* position in the sequence.  Python positions 0..n-1 are 1..n here.       *)
(* m/z values are integers (micro-units) chosen so that every ppm value    *)
(* the code computes is an exact integer or is compared by cross           *)
(* multiplication; all products stay below 2^31.                           *)
(***************************************************************************)
EXTENDS Integers, Sequences, FiniteSets, TLC

VARIABLES
    pc,         \* position of the running function
    err,        \* exception raised by the running function ("none" if none)
    ref,        \* reference feature table
    comp,       \* compared feature table
    pool,       \* row labels of comp that have not been dropped
    sdWidth,    \* params["sd_width"]
    rtSdIn,     \* rtSd as passed by the caller (scalar or array)
    mzSdIn,     \* mzSd as passed by the caller (scalar or array)
    rtSd,       \* rtSd array the function works on
    mzSd,       \* mzSd array the function works on
    i,          \* loop variable i (row of ref being visited)
    d,          \* matchFeatures: the pairs recorded so far (dict d, keys 0..j-1)
    subDf,      \* findMatchedSubset: the rows recorded so far (dict, keys 0..j-1)
    initMzTol,  \* calibrateFeatures: int(params["tol_initial"]), mzTol of globalCalibration
    nPeaks,     \* globalCalibration: number of matches to collect
    j,          \* globalCalibration: loop variable j
    rtShifts,   \* globalCalibration: RT-shifts collected by the scan
    mzShifts,   \* globalCalibration: m/z-shifts (ppm) collected by the scan
    ret,        \* globalCalibration: the returned (trimmed) pair of samples
    caller,     \* the function that called the running one ("none": called on its own)
    fArray,     \* main: the feature tables of the runs, in input order
    refNo,      \* main: the reference run (0-based in the code, 1-based here)
    run,        \* loop variable i of the loops over the runs
    indArray,   \* alignFeatures: indArray[r][k], -1 or a feature index of run k
    result,     \* alignFeatures: what the call returned
    pctFull,    \* params["pct_full_alignment"]
    refInd,     \* rescueFeatures: list refInd
    compInd,    \* rescueFeatures: list compInd
    rescueIn,   \* rescueFeatures: rtTolUnit, rtTol, mzTolUnit, mzTol
    refParam,   \* main: params["reference_feature"]
    refIntensity, \* main: refIntensity of the reference selection
    rtSdArray,  \* main: rtSdArray
    mzSdArray,  \* main: mzSdArray
    pass,       \* calibrateFeatures: number of localCalibration calls made
    shifts,     \* localCalibration: the shifts handed to the regression of the pass
    msg         \* the last message printed (or given to sys.exit)

vars == <<pc, err, ref, comp, pool, sdWidth, rtSdIn, mzSdIn, rtSd, mzSd, i, d, subDf,
          initMzTol, nPeaks, j, rtShifts, mzShifts, ret,
          caller, fArray, refNo, run, indArray, result, pctFull, refInd, compInd, rescueIn,
          refParam, refIntensity, rtSdArray, mzSdArray, pass, shifts, msg>>

sdInputs == <<sdWidth, rtSdIn, mzSdIn>>
sdVars == <<sdWidth, rtSdIn, mzSdIn, rtSd, mzSd>>
globalVars == <<initMzTol, nPeaks, j, rtShifts, mzShifts, ret>>
alignVars == <<fArray, refNo, run, indArray, result, pctFull>>
rescueVars == <<refInd, compInd, rescueIn>>
selectVars == <<refParam, refIntensity>>
calibVars == <<rtSdArray, mzSdArray, pass, shifts>>
extVars == <<caller, alignVars, rescueVars, selectVars, calibVars, msg>>

----------------------------------------------------------------------------
(* Bounds of the model *)

MaxRef == 2         \* largest number of reference features
MaxComp == 2        \* largest number of compared features
MaxSdLen == 3       \* largest SD array (= number of reference features) of SpecFloor
MaxHead == 2        \* SpecGlobal: largest number of leading reference features
MaxGComp == 2       \* SpecGlobal: largest number of compared features
MaxRuns == 3        \* SpecAlign: largest number of runs (feature files)
MaxAlignRows == 2   \* SpecAlign: largest number of features of a run
MaxAligned == 2     \* SpecRescue: largest number of pairs already aligned
MaxURef == 2        \* SpecRescue: largest number of unaligned reference features
MaxUComp == 2       \* SpecRescue: largest number of unaligned compared features
MaxSelRuns == 3     \* SpecSelect: largest number of runs (feature files)
MaxCalibRuns == 3   \* SpecCalib: largest number of runs (feature files)
MaxLocalRows == 2   \* SpecLocal: largest number of features of a table

ChargeSet == {0, 1, 2}
RefChargeSet == {0, 1}
IntensitySet == {1, 2}
RefMzSet == {1000000}
RefRtSet == {60}
\* (RT, mz) of a compared feature: 2 s / 4 s and 20 ppm / 50 ppm off the reference
CompPlaces == {<<62, 1000020>>, <<64, 1000020>>, <<62, 1000050>>}
RtSdSet == {1, 2}
MzSdSet == {10}
SdWidthSet == {2}
FloorRtSdSet == {0, 1, 2}
\* SpecGlobal: the reference table is its leading rows followed by this many
\* rows of one low-intensity feature (round(0.05 * n) is 0 below 11 rows)
PadSet == {9, 28}
PadFeature == [mz |-> 2000000, RT |-> 60, z |-> 1, intensity |-> 1]
\* (RT, mz) of a compared feature of SpecGlobal: the two ends of the 20 ppm
\* window of m/z 1000000, a point inside it, and 10 ppm above m/z 2000000
GCompPlaces == {<<60, 999980>>, <<61, 1000010>>, <<62, 1000020>>, <<62, 2000020>>}
GCompChargeSet == {0, 1}
MzTolSet == {20}
FloorMzSdSet == {0, 5, 10}

----------------------------------------------------------------------------
(* Helpers *)

Abs(x) == IF x < 0 THEN -x ELSE x

Range(s) == {s[k] : k \in DOMAIN s}

MinOf(S) == CHOOSE x \in S : \A y \in S : x <= y

MkTable(f) ==
    [k \in DOMAIN f |-> [index |-> k, mz |-> f[k].mz, z |-> f[k].z,
                         RT |-> f[k].RT, intensity |-> f[k].intensity]]

Tables(A, max) ==
    UNION {{MkTable(f) : f \in [1..n -> A]} : n \in 1..max}

\* reference rows of SpecMatch: the input lists them in ascending intensity
RefTables(max) ==
    UNION {{MkTable([k \in 1..n |-> [mz |-> a[k].mz, RT |-> a[k].RT, z |-> a[k].z,
                                     intensity |-> k]]) :
                a \in [1..n -> [mz : RefMzSet, RT : RefRtSet, z : RefChargeSet]]} :
           n \in 1..max}
CompAttrs ==
    {[mz |-> p[2], RT |-> p[1], z |-> z, intensity |-> a] :
        p \in CompPlaces, z \in ChargeSet, a \in IntensitySet}

SdScalars(S) == [kind : {"scalar"}, v : S]
SdArrays(S, n) == [kind : {"array"}, v : [1..n -> S]]

----------------------------------------------------------------------------
(* sort_values("intensity", ascending = False, ignore_index = True):       *)
(* rows in descending intensity; rows of equal intensity keep their input  *)
(* order (every input order is drawn by Init).                             *)

(* a sample of numbers in ascending order *)
RECURSIVE InsertAsc(_, _)
InsertAsc(s, x) ==
    IF s = <<>> THEN <<x>>
    ELSE IF Head(s) <= x THEN <<Head(s)>> \o InsertAsc(Tail(s), x)
    ELSE <<x>> \o s

RECURSIVE SortAsc(_)
SortAsc(s) ==
    IF s = <<>> THEN <<>> ELSE InsertAsc(SortAsc(Tail(s)), Head(s))

RECURSIVE InsertDesc(_, _)
InsertDesc(s, x) ==
    IF s = <<>> THEN <<x>>
    ELSE IF Head(s).intensity >= x.intensity
         THEN <<Head(s)>> \o InsertDesc(Tail(s), x)
         ELSE <<x>> \o s

RECURSIVE SortDesc(_)
SortDesc(t) ==
    IF t = <<>> THEN <<>>
    ELSE InsertDesc(SortDesc(SubSeq(t, 1, Len(t) - 1)), t[Len(t)])

(* np.repeat(sd, n) when sd is not an array *)
AsArray(sd, n) ==
    IF sd.kind = "array" THEN sd.v ELSE [k \in 1..n |-> sd.v]

(* sd[sd == 0] = min(sd[sd > 0]); min() of an empty selection raises *)
HasPositive(sd) == \E k \in DOMAIN sd : sd[k] > 0

MaxOf(S) == CHOOSE x \in S : \A y \in S : x >= y

(* ZeroFloor that takes the largest positive entry *)
ZeroFloorMax(sd) ==
    [k \in DOMAIN sd |->
        IF sd[k] = 0 THEN MaxOf({sd[m] : m \in {m \in DOMAIN sd : sd[m] > 0}})
        ELSE sd[k]]

ZeroFloor(sd) ==
    [k \in DOMAIN sd |->
        IF sd[k] = 0 THEN MinOf({sd[m] : m \in {m \in DOMAIN sd : sd[m] > 0}})
        ELSE sd[k]]

(* InTol without the m/z condition *)
InTolRtOnly(r, c, rtTol, mzTol) == Abs(c.RT - r.RT) <= rtTol

(* InTol with both bounds exclusive *)
InTolStrict(r, c, rtTol, mzTol) ==
    /\ Abs(c.RT - r.RT) < rtTol
    /\ Abs(c.mz - r.mz) <= (mzTol * r.mz - 1) \div 1000000

(* (abs(rtDev) <= rtTol[i]) & (abs(mzDev) <= mzTol[i]) for one row c of comp,
   mzDev = (c.mz - r.mz) / r.mz * 1e6; for the integers a = |c.mz - r.mz| and
   b = mzTol * r.mz, a * 10^6 <= b is a <= b \div 10^6 *)
InTol(r, c, rtTol, mzTol) ==
    /\ Abs(c.RT - r.RT) <= rtTol
    /\ Abs(c.mz - r.mz) <= (mzTol * r.mz) \div 1000000

----------------------------------------------------------------------------
(* matchFeatures *)

(* the arguments of rescueFeatures while it is not called *)
NoRescue ==
    [rtTolUnit |-> "1", rtTol |-> 0, mzTolUnit |-> "1", mzTol |-> 0,
     refInd |-> <<>>, compInd |-> <<>>]

(* rtShifts / mzShifts of localCalibration while it is not running *)
NoShifts == [kind |-> "none", n |-> 0, v |-> <<>>]

(* the module-level names before main has bound them, no call in progress *)
ExtIdle ==
    /\ caller = "none"
    /\ fArray = <<>>
    /\ refNo = 0
    /\ run = 0
    /\ indArray = <<>>
    /\ result = [kind |-> "none"]
    /\ pctFull = 100
    /\ refInd = <<>>
    /\ compInd = <<>>
    /\ rescueIn = NoRescue
    /\ refParam = "0"
    /\ refIntensity = 0
    /\ rtSdArray = <<>>
    /\ mzSdArray = <<>>
    /\ pass = 0
    /\ shifts = NoShifts
    /\ msg = ""

(* the variables of globalCalibration while it is not running *)
GlobalIdle ==
    /\ initMzTol = 0
    /\ nPeaks = 0
    /\ j = 1
    /\ rtShifts = <<>>
    /\ mzShifts = <<>>
    /\ ret = [rtShifts |-> <<>>, mzShifts |-> <<>>]

MatchInit ==
    /\ ExtIdle
    /\ pc = "start"
    /\ err = "none"
    /\ ref \in RefTables(MaxRef)
    /\ comp \in Tables(CompAttrs, MaxComp)
    /\ pool = {}
    /\ sdWidth \in SdWidthSet
    /\ rtSdIn \in SdArrays(RtSdSet, Len(ref))
    /\ mzSdIn \in SdArrays(MzSdSet, Len(ref))
    /\ rtSd = <<>>
    /\ mzSd = <<>>
    /\ i = 1
    /\ d = <<>>
    /\ subDf = <<>>
    /\ GlobalIdle

(* lines 305-317: sort both tables, expand scalar SDs, floor the zeros *)
M_Start ==
    /\ pc = "start"
    /\ ref' = SortDesc(ref)
    /\ comp' = SortDesc(comp)
    /\ pool' = 1..Len(comp)
    /\ LET rt0 == AsArray(rtSdIn, Len(ref))
           mz0 == AsArray(mzSdIn, Len(ref))
       IN  IF ~HasPositive(rt0)
           THEN /\ rtSd' = rt0
                /\ mzSd' = mz0
                /\ pc' = "error"
                /\ err' = "ValueError"
           ELSE IF ~HasPositive(mz0)
           THEN /\ rtSd' = ZeroFloor(rt0)
                /\ mzSd' = mz0
                /\ pc' = "error"
                /\ err' = "ValueError"
           ELSE /\ rtSd' = ZeroFloor(rt0)
                /\ mzSd' = ZeroFloor(mz0)
                /\ pc' = "loop"
                /\ err' = err
    /\ UNCHANGED <<extVars, sdInputs, i, d, subDf, globalVars>>

(* row labels of comp within the tolerance of ref row k (line 328) *)
Candidates(k) ==
    {c \in pool : InTol(ref[k], comp[c], rtSd[k] * sdWidth, mzSd[k] * sdWidth)}

(* ChargeCandidates without the charge condition *)
ChargeCandidatesAny(k, z) == Candidates(k)

(* the same, restricted to the charge z (line 354) *)
ChargeCandidates(k, z) == {c \in Candidates(k) : comp[c].z = z}

(* Chosen with a charge-0 fallback when no candidate has the charge of ref row k *)
ChosenZeroFallback(k) ==
    LET rowInd == Candidates(k)
        z == ref[k].z
    IN  IF rowInd = {} THEN 0
        ELSE IF z = 0 THEN MinOf(rowInd)
        ELSE IF comp[MinOf(rowInd)].z = 0 THEN MinOf(rowInd)
        ELSE IF {c \in rowInd : comp[c].z = z} # {}
             THEN MinOf({c \in rowInd : comp[c].z = z})
        ELSE IF {c \in rowInd : comp[c].z = 0} # {}
             THEN MinOf({c \in rowInd : comp[c].z = 0})
        ELSE 0

(* the row of comp paired with ref row k, 0 when none (lines 331-365) *)
Chosen(k) ==
    LET rowInd == Candidates(k)
        z == ref[k].z
    IN  IF rowInd = {} THEN 0
        ELSE IF z = 0 THEN MinOf(rowInd)
        ELSE IF comp[MinOf(rowInd)].z = 0 THEN MinOf(rowInd)
        ELSE IF ChargeCandidates(k, z) # {} THEN MinOf(ChargeCandidates(k, z))
        ELSE 0

(* Drop that leaves the row in the table *)
DropNothing(p, c) == p

(* comp = comp.drop(rowInd) *)
Drop(p, c) == p \ {c}

(* one iteration of the loop of lines 322-365 *)
M_Step ==
    /\ pc = "loop"
    /\ i <= Len(ref)
    /\ LET c == Chosen(i)
       IN  IF c = 0
           THEN UNCHANGED <<d, pool>>
           ELSE /\ d' = Append(d, [ref |-> ref[i], comp |-> comp[c]])
                /\ pool' = Drop(pool, c)
    /\ i' = i + 1
    /\ UNCHANGED <<extVars, pc, err, ref, comp, sdVars, subDf, globalVars>>

(* lines 381-382 *)
M_Return ==
    /\ pc = "loop"
    /\ i > Len(ref)
    /\ pc' = "done"
    /\ UNCHANGED <<extVars, err, ref, comp, pool, sdVars, i, d, subDf, globalVars>>

MatchNext == M_Start \/ M_Step \/ M_Return

SpecMatch == MatchInit /\ [][MatchNext]_vars

----------------------------------------------------------------------------
(* matchFeatures on the three-feature scenario: RT in units of 0.1 s, m/z in
   units of 0.0001; comp is ref shifted by +1.0 s and +2 ppm *)

ScenarioRef ==
    <<[mz |-> 1000000, RT |-> 600, z |-> 1, intensity |-> 1000],
      [mz |-> 2000000, RT |-> 1200, z |-> 0, intensity |-> 500],
      [mz |-> 3000000, RT |-> 1800, z |-> 2, intensity |-> 100]>>

ScenarioShift(f) ==
    [mz |-> f.mz + (2 * f.mz) \div 1000000, RT |-> f.RT + 10,
     z |-> f.z, intensity |-> f.intensity]

ScenarioComp == [k \in 1..3 |-> ScenarioShift(ScenarioRef[k])]

Orders(n) == {p \in [1..n -> 1..n] : \A a, b \in 1..n : a # b => p[a] # p[b]}

\* SDs whose window (SD x 10) covers 1.0 s / 2 ppm: 1.0 s and 100 s, 10 and 20 ppm
ScenarioRtSdSet == {1, 100}
ScenarioMzSdSet == {1, 2}

ScenarioInit ==
    /\ ExtIdle
    /\ pc = "start"
    /\ err = "none"
    /\ \E p \in Orders(3) : ref = MkTable([k \in 1..3 |-> ScenarioRef[p[k]]])
    /\ \E p \in Orders(3) : comp = MkTable([k \in 1..3 |-> ScenarioComp[p[k]]])
    /\ pool = {}
    /\ sdWidth = 10
    /\ rtSdIn \in SdArrays(ScenarioRtSdSet, 3)
    /\ mzSdIn \in SdArrays(ScenarioMzSdSet, 3)
    /\ rtSd = <<>>
    /\ mzSd = <<>>
    /\ i = 1
    /\ d = <<>>
    /\ subDf = <<>>
    /\ GlobalIdle

SpecScenario == ScenarioInit /\ [][MatchNext]_vars

----------------------------------------------------------------------------
(* alignFeatures *)

AlignAttrs == [mz : {1000000, 1000020}, RT : {60}, z : {1}, intensity : {1, 2}]
PctSet == {50, 100}

(* an SD array as localCalibration leaves it: one entry per reference feature *)
SdOfRun(k, ref0, v) ==
    IF k = ref0 THEN [kind |-> "NA"]
    ELSE [kind |-> "array", v |-> v]

AlignInit ==
    /\ caller = "align"
    /\ \E n \in 2..MaxRuns : fArray \in [1..n -> Tables(AlignAttrs, MaxAlignRows)]
    /\ refNo \in 1..Len(fArray)
    /\ run = 0
    /\ indArray = <<>>
    /\ result = [kind |-> "none"]
    /\ pctFull \in PctSet
    /\ refInd = <<>>
    /\ compInd = <<>>
    /\ rescueIn = NoRescue
    /\ refParam = "0"
    /\ refIntensity = 0
    /\ rtSdArray = [k \in 1..Len(fArray) |->
                       SdOfRun(k, refNo, [x \in 1..Len(fArray[refNo]) |-> 1])]
    /\ mzSdArray = [k \in 1..Len(fArray) |->
                       SdOfRun(k, refNo, [x \in 1..Len(fArray[refNo]) |-> 10])]
    /\ pass = 0
    /\ shifts = NoShifts
    /\ msg = ""
    /\ pc = "astart"
    /\ err = "none"
    /\ ref = <<>>
    /\ comp = <<>>
    /\ pool = {}
    /\ sdWidth \in SdWidthSet
    /\ rtSdIn = [kind |-> "NA"]
    /\ mzSdIn = [kind |-> "NA"]
    /\ rtSd = <<>>
    /\ mzSd = <<>>
    /\ i = 1
    /\ d = <<>>
    /\ subDf = <<>>
    /\ GlobalIdle

(* lines 466-468: every cell -1, the column of the reference run the identity *)
A_Start ==
    /\ pc = "astart"
    /\ indArray' = [r \in 1..Len(fArray[refNo]) |->
                       [k \in 1..Len(fArray) |-> IF k = refNo THEN r ELSE -1]]
    /\ run' = 1
    /\ pc' = "aloop"
    /\ UNCHANGED <<caller, fArray, refNo, result, pctFull, rescueVars, selectVars,
                   calibVars, msg, err, ref, comp, pool, sdVars, i, d, subDf,
                   globalVars>>

(* lines 469-470, i == refNo: nothing to do for the reference run *)
A_Skip ==
    /\ pc = "aloop"
    /\ run <= Len(fArray)
    /\ run = refNo
    /\ run' = run + 1
    /\ UNCHANGED <<caller, fArray, refNo, indArray, result, pctFull, rescueVars,
                   selectVars, calibVars, msg, pc, err, ref, comp, pool, sdVars,
                   i, d, subDf, globalVars>>

(* lines 470-475: the call matchFeatures(fArray[refNo], fArray[i],
   rtSdArray[i], mzSdArray[i], params, "align") *)
A_Call ==
    /\ pc = "aloop"
    /\ run <= Len(fArray)
    /\ run # refNo
    /\ ref' = fArray[refNo]
    /\ comp' = fArray[run]
    /\ rtSdIn' = rtSdArray[run]
    /\ mzSdIn' = mzSdArray[run]
    /\ pool' = {}
    /\ i' = 1
    /\ d' = <<>>
    /\ msg' = "features (compared run)"
    /\ pc' = "start"
    /\ UNCHANGED <<caller, alignVars, rescueVars, selectVars, calibVars, err,
                   sdWidth, rtSd, mzSd, subDf, globalVars>>

(* line 475, the assignment refInd, compInd = <the DataFrame df of line 381>:
   unpacking a DataFrame iterates its column labels; df has no column when no
   pair was recorded and two columns per column of the tables otherwise, never
   exactly two, so the assignment raises ValueError and lines 482-573 are
   not executed *)
A_Unpack ==
    /\ pc = "done"
    /\ caller = "align"
    /\ pc' = "error"
    /\ err' = "ValueError"
    /\ UNCHANGED <<extVars, ref, comp, pool, sdVars, i, d, subDf, globalVars>>

AlignNext == A_Start \/ A_Skip \/ A_Call \/ M_Start \/ M_Step \/ M_Return \/ A_Unpack

SpecAlign == AlignInit /\ [][AlignNext]_vars

----------------------------------------------------------------------------
(* rescueFeatures *)

(* the pairs already aligned: log2 intensity ratios (ref - comp) 0, 2, -1, 0 *)
AlignedPairs ==
    <<[ref |-> [mz |-> 2000000, RT |-> 60, z |-> 1, intensity |-> 2],
       comp |-> [mz |-> 2000000, RT |-> 60, z |-> 1, intensity |-> 2]],
      [ref |-> [mz |-> 2000000, RT |-> 90, z |-> 1, intensity |-> 8],
       comp |-> [mz |-> 2000000, RT |-> 90, z |-> 1, intensity |-> 2]],
      [ref |-> [mz |-> 2000000, RT |-> 120, z |-> 1, intensity |-> 2],
       comp |-> [mz |-> 2000000, RT |-> 120, z |-> 1, intensity |-> 4]],
      [ref |-> [mz |-> 2000000, RT |-> 150, z |-> 1, intensity |-> 2],
       comp |-> [mz |-> 2000000, RT |-> 150, z |-> 1, intensity |-> 2]]>>

URefAttrs == [mz : {1000000}, RT : {60}, z : {0, 1}, intensity : {4}]
UCompAttrs == [mz : {1000000}, RT : {60, 64}, z : {0, 1, 2}, intensity : {4, 8}]
\* (rtTolUnit, mzTolUnit)
UnitSet == {<<"1", "1">>, <<"2", "2">>, <<"3", "1">>, <<"1", "3">>}
\* rt_tolerance_value and mz_tolerance_value, and the SDs the tolerances of
\* unit "1" are multiples of
RescueRtTolSet == {2}
RescueMzTolSet == {1}
RescueRtSdSet == {2}
RescueMzSdSet == {10}

Seqs(A, max) == UNION {[1..n -> A] : n \in 1..max}

RescueInit ==
    /\ caller = "none"
    /\ fArray = <<>>
    /\ refNo = 0
    /\ run = 0
    /\ indArray = <<>>
    /\ result = [kind |-> "none"]
    /\ pctFull = 100
    /\ \E a \in 1..MaxAligned, ur \in Seqs(URefAttrs, MaxURef),
          uc \in Seqs(UCompAttrs, MaxUComp), u \in UnitSet,
          rt \in RescueRtTolSet, mz \in RescueMzTolSet :
          /\ ref = MkTable([k \in 1..a |-> AlignedPairs[k].ref] \o ur)
          /\ comp = MkTable([k \in 1..a |-> AlignedPairs[k].comp] \o uc)
          /\ refInd = [k \in 1..a |-> k]
          /\ compInd = [k \in 1..a |-> k]
          /\ rescueIn = [rtTolUnit |-> u[1], rtTol |-> rt,
                         mzTolUnit |-> u[2], mzTol |-> mz,
                         refInd |-> [k \in 1..a |-> k], compInd |-> [k \in 1..a |-> k]]
    /\ rtSd \in [1..Len(ref) -> RescueRtSdSet]
    /\ mzSd \in [1..Len(ref) -> RescueMzSdSet]
    /\ refParam = "0"
    /\ refIntensity = 0
    /\ rtSdArray = <<>>
    /\ mzSdArray = <<>>
    /\ pass = 0
    /\ shifts = NoShifts
    /\ msg = ""
    /\ pc = "rstart"
    /\ err = "none"
    /\ pool = {}
    /\ sdWidth \in SdWidthSet
    /\ rtSdIn = [kind |-> "NA"]
    /\ mzSdIn = [kind |-> "NA"]
    /\ i = 1
    /\ d = <<>>
    /\ subDf = <<>>
    /\ GlobalIdle

RECURSIVE Ascending(_)
Ascending(S) ==
    IF S = {} THEN <<>> ELSE <<MinOf(S)>> \o Ascending(S \ {MinOf(S)})

(* uRefInd and uCompInd (lines 392, 397): the rows that are in no given pair *)
URefInd == Ascending((1..Len(ref)) \ Range(rescueIn.refInd))
UCompInd == Ascending((1..Len(comp)) \ Range(rescueIn.compInd))

RECURSIVE Log2(_)
Log2(x) == IF x <= 1 THEN 0 ELSE 1 + Log2(x \div 2)

(* 2 * np.ma.median(comp["intensity"][compInd]) *)
IntLevel2 ==
    LET a == SortAsc([k \in DOMAIN rescueIn.compInd |->
                         comp[rescueIn.compInd[k]].intensity])
        n == Len(a)
    IN  IF n % 2 = 1 THEN 2 * a[(n + 1) \div 2] ELSE a[n \div 2] + a[n \div 2 + 1]

(* ratioAligned of line 408 *)
RatioAligned ==
    [k \in DOMAIN rescueIn.refInd |->
        Log2(ref[rescueIn.refInd[k]].intensity) - Log2(comp[rescueIn.compInd[k]].intensity)]

(* 40 * np.percentile(s, 2.5 * num) for a non-empty s *)
Percentile40(s, num) ==
    LET a == SortAsc(s)
        pos == num * (Len(s) - 1)
        lo == pos \div 40 + 1
        hi == IF lo < Len(s) THEN lo + 1 ELSE lo
    IN  40 * a[lo] + (pos % 40) * (a[hi] - a[lo])

(* rtTol[i] and mzTol[i] of lines 413-431 for row i of uRef *)
RescueRtTolOf(k) ==
    IF rescueIn.rtTolUnit = "1" THEN rescueIn.rtTol * rtSd[URefInd[k]] ELSE rescueIn.rtTol
RescueMzTolOf(k) ==
    IF rescueIn.mzTolUnit = "1" THEN rescueIn.mzTol * mzSd[URefInd[k]] ELSE rescueIn.mzTol

(* the condition of lines 438-439 for row k of uRef and row p of uComp *)
Rescuable(k, p) ==
    LET r == ref[URefInd[k]]
        c == comp[UCompInd[p]]
        intRatio == Log2(c.intensity) - Log2(r.intensity)
    IN  /\ 2 * c.intensity > IntLevel2
        /\ 40 * intRatio >= Percentile40(RatioAligned, 1)
        /\ 40 * intRatio <= Percentile40(RatioAligned, 39)
        /\ Abs(c.mz - r.mz) <= (RescueMzTolOf(k) * r.mz) \div 1000000
        /\ Abs(c.RT - r.RT) <= RescueRtTolOf(k)

(* the row of comp rescued for row k of uRef, 0 when none (lines 438-458);
   ind holds positions in uComp, ind2 positions in ind *)
RescueChoice(k) ==
    LET ind == Ascending({p \in 1..Len(UCompInd) : Rescuable(k, p)})
        charge == ref[URefInd[k]].z
        ind2 == {q \in 1..Len(ind) : comp[UCompInd[ind[q]]].z = charge}
    IN  IF ind = <<>> THEN 0
        ELSE IF charge = 0 THEN UCompInd[ind[1]]
        ELSE IF comp[UCompInd[ind[1]]].z = 0 THEN UCompInd[ind[1]]
        ELSE IF ind2 # {} THEN UCompInd[MinOf(ind2)]
        ELSE 0

(* RescueAdd that puts the new entry in front *)
RescueAddFront(list, x) == <<x>> \o list

(* refInd.append(...), compInd.append(...) *)
RescueAdd(list, x) == Append(list, x)

(* UnitKnown that takes every code for "2" *)
UnitKnownAny(unit) == TRUE

(* the if / elif of lines 411-431 handles the unit code *)
UnitKnown(unit) == unit \in {"1", "2"}

(* lines 386-431: the statistics of the aligned pairs, then the tolerance
   units; a unit other than "1" or "2" prints a warning and returns the lists *)
R_Start ==
    /\ pc = "rstart"
    /\ IF ~UnitKnown(rescueIn.rtTolUnit) \/ ~UnitKnown(rescueIn.mzTolUnit)
       THEN /\ msg' = "Due to incorrect parameter settings, the rescue step is skipped"
            /\ result' = [kind |-> "returned", refInd |-> refInd, compInd |-> compInd]
            /\ pc' = "rdone"
       ELSE /\ msg' = "m/z-shifts"
            /\ result' = result
            /\ pc' = "rloop"
    /\ i' = 1
    /\ UNCHANGED <<caller, fArray, refNo, run, indArray, pctFull, rescueVars,
                   selectVars, calibVars, err, ref, comp, pool, sdVars, d, subDf,
                   globalVars>>

(* one iteration of the loop of lines 434-458 *)
R_Step ==
    /\ pc = "rloop"
    /\ i <= Len(URefInd)
    /\ LET c == RescueChoice(i)
       IN  IF c = 0
           THEN UNCHANGED <<refInd, compInd>>
           ELSE /\ refInd' = RescueAdd(refInd, URefInd[i])
                /\ compInd' = RescueAdd(compInd, c)
    /\ i' = i + 1
    /\ UNCHANGED <<caller, alignVars, rescueIn, selectVars, calibVars, msg, pc, err,
                   ref, comp, pool, sdVars, d, subDf, globalVars>>

(* lines 460-462 *)
R_Return ==
    /\ pc = "rloop"
    /\ i > Len(URefInd)
    /\ msg' = "Through the rescue procedure features are additionally aligned"
    /\ result' = [kind |-> "returned", refInd |-> refInd, compInd |-> compInd]
    /\ pc' = "rdone"
    /\ UNCHANGED <<caller, fArray, refNo, run, indArray, pctFull, rescueVars,
                   selectVars, calibVars, err, ref, comp, pool, sdVars, i, d, subDf,
                   globalVars>>

RescueNext == R_Start \/ R_Step \/ R_Return

SpecRescue == RescueInit /\ [][RescueNext]_vars

----------------------------------------------------------------------------
(* main: selection of the reference run (lines 615-636) *)

TopN == 100

(* the intensities of a run with more than TopN features, in ascending order:
   k features of intensity 2 below 50 of intensity 4 and 50 of intensity 8 *)
LongRun(k) ==
    [x \in 1..(TopN + k) |-> IF x <= k THEN 2 ELSE IF x <= k + 50 THEN 4 ELSE 8]

TailSet == {0, 2}
SelIntensities == {<<>>, <<5>>, <<6>>, <<4, 8>>} \cup {LongRun(k) : k \in TailSet}

SelTable(a) ==
    MkTable([k \in DOMAIN a |-> [mz |-> 1000000, RT |-> 60, z |-> 1, intensity |-> a[k]]])

FileNames == <<"f1", "f2", "f3", "f4", "f5">>
(* featureFiles, the list of the input files *)
FeatureFiles == [k \in 1..Len(fArray) |-> FileNames[k]]

RefParamSet == {"0", "f1", "f2", "f3", "missing"}

SelectInit ==
    /\ caller = "none"
    /\ \E n \in 2..MaxSelRuns :
          fArray \in [1..n -> {SelTable(a) : a \in SelIntensities}]
    /\ refNo = 0
    /\ run = 0
    /\ indArray = <<>>
    /\ result = [kind |-> "none"]
    /\ pctFull = 100
    /\ refInd = <<>>
    /\ compInd = <<>>
    /\ rescueIn = NoRescue
    /\ refParam \in RefParamSet
    /\ refIntensity = 0
    /\ rtSdArray = <<>>
    /\ mzSdArray = <<>>
    /\ pass = 0
    /\ shifts = NoShifts
    /\ msg = ""
    /\ pc = "sstart"
    /\ err = "none"
    /\ ref = <<>>
    /\ comp = <<>>
    /\ pool = {}
    /\ sdWidth \in SdWidthSet
    /\ rtSdIn = [kind |-> "NA"]
    /\ mzSdIn = [kind |-> "NA"]
    /\ rtSd = <<>>
    /\ mzSd = <<>>
    /\ i = 1
    /\ d = <<>>
    /\ subDf = <<>>
    /\ GlobalIdle

(* sorted(a, reverse = True): position k holds the largest value that at
   least k entries of a reach *)
SortedDesc(a) ==
    LET V == Range(a)
        cnt == [v \in V |-> Cardinality({x \in DOMAIN a : a[x] >= v})]
    IN  [k \in 1..Len(a) |->
            CHOOSE v \in V : cnt[v] >= k /\ \A w \in V : cnt[w] >= k => w <= v]

(* sorted(fArray[i]["intensity"], reverse = True)[0: 100] *)
TopIntensities(t) ==
    LET a == SortedDesc([k \in DOMAIN t |-> t[k].intensity])
    IN  SubSeq(a, 1, IF Len(a) < TopN THEN Len(a) ELSE TopN)

(* np.median of an empty sample is nan *)
NaN == -1

(* 2 * np.median(a) *)
Median2(a) ==
    LET n == Len(a)
    IN  IF n = 0 THEN NaN
        ELSE IF n % 2 = 1 THEN 2 * a[(n + 1) \div 2]
        ELSE a[n \div 2] + a[n \div 2 + 1]

(* Better with > for >= *)
BetterStrict(tmp, cur) == tmp # NaN /\ tmp > cur

(* tmpIntensity >= refIntensity (line 628); False when tmpIntensity is nan *)
Better(tmp, cur) == tmp # NaN /\ tmp >= cur

(* IndexOf that falls back on the first run *)
IndexOfOrFirst(name) ==
    IF \E k \in DOMAIN FeatureFiles : FeatureFiles[k] = name
    THEN MinOf({k \in DOMAIN FeatureFiles : FeatureFiles[k] = name})
    ELSE 1

(* featureFiles.index(name): the first position of name, 0 when there is none *)
IndexOf(name) ==
    IF \E k \in DOMAIN FeatureFiles : FeatureFiles[k] = name
    THEN MinOf({k \in DOMAIN FeatureFiles : FeatureFiles[k] = name})
    ELSE 0

(* lines 622-625 and 630-636: the automatic selection starts from run 0 and
   intensity 0; a name is looked up, and sys.exit ends the program when the
   lookup raises *)
S_Start ==
    /\ pc = "sstart"
    /\ IF refParam = "0"
       THEN /\ refNo' = 1
            /\ refIntensity' = 0
            /\ run' = 1
            /\ pc' = "sloop"
            /\ UNCHANGED <<msg, err>>
       ELSE IF IndexOf(refParam) = 0
       THEN /\ pc' = "exit"
            /\ err' = "SystemExit"
            /\ msg' = "'reference_feature' parameter should be correctly specified"
            /\ UNCHANGED <<refNo, refIntensity, run>>
       ELSE /\ refNo' = IndexOf(refParam)
            /\ pc' = "selected"
            /\ msg' = "is chosen as the reference run"
            /\ UNCHANGED <<refIntensity, run, err>>
    /\ UNCHANGED <<caller, fArray, indArray, result, pctFull, rescueVars, refParam,
                   calibVars, ref, comp, pool, sdVars, i, d, subDf, globalVars>>

(* one iteration of the loop of lines 626-629 *)
S_Step ==
    /\ pc = "sloop"
    /\ run <= Len(fArray)
    /\ LET tmpIntensity == Median2(TopIntensities(fArray[run]))
       IN  IF Better(tmpIntensity, refIntensity)
           THEN /\ refNo' = run
                /\ refIntensity' = tmpIntensity
           ELSE UNCHANGED <<refNo, refIntensity>>
    /\ run' = run + 1
    /\ UNCHANGED <<caller, fArray, indArray, result, pctFull, rescueVars, refParam,
                   calibVars, msg, pc, err, ref, comp, pool, sdVars, i, d, subDf,
                   globalVars>>

(* line 636 after the loop *)
S_Done ==
    /\ pc = "sloop"
    /\ run > Len(fArray)
    /\ pc' = "selected"
    /\ msg' = "is chosen as the reference run"
    /\ UNCHANGED <<caller, alignVars, rescueVars, selectVars, calibVars, err, ref,
                   comp, pool, sdVars, i, d, subDf, globalVars>>

SelectNext == S_Start \/ S_Step \/ S_Done

SpecSelect == SelectInit /\ [][SelectNext]_vars

(* the two places that handle a wrong setting: the reference selection of main
   and the tolerance units of rescueFeatures *)
ConfigInit == SelectInit \/ RescueInit

ConfigNext == SelectNext \/ RescueNext

SpecConfig == ConfigInit /\ [][ConfigNext]_vars

----------------------------------------------------------------------------
(* findMatchedSubset *)

(* lines 186-198: sort both tables, expand scalar SDs, floor the zeros *)
F_Start ==
    /\ pc = "fstart"
    /\ ref' = SortDesc(ref)
    /\ comp' = SortDesc(comp)
    /\ pool' = 1..Len(comp)
    /\ LET rt0 == AsArray(rtSdIn, Len(ref))
           mz0 == AsArray(mzSdIn, Len(ref))
       IN  IF ~HasPositive(rt0)
           THEN /\ rtSd' = rt0
                /\ mzSd' = mz0
                /\ pc' = "error"
                /\ err' = "ValueError"
           ELSE IF ~HasPositive(mz0)
           THEN /\ rtSd' = ZeroFloor(rt0)
                /\ mzSd' = mz0
                /\ pc' = "error"
                /\ err' = "ValueError"
           ELSE /\ rtSd' = ZeroFloor(rt0)
                /\ mzSd' = ZeroFloor(mz0)
                /\ pc' = "floop"
                /\ err' = err
    /\ UNCHANGED <<extVars, sdInputs, i, d, subDf, globalVars>>

(* the row of comp reported for ref row k, 0 when none (lines 211-224) *)
Nearest(k) ==
    LET z == ref[k].z
        rowInd == IF z = 0 THEN Candidates(k) ELSE ChargeCandidates(k, z)
    IN  IF rowInd = {} THEN 0 ELSE MinOf(rowInd)

(* one iteration of the loop of lines 204-227; comp is not changed *)
F_Step ==
    /\ pc = "floop"
    /\ i <= Len(ref)
    /\ LET c == Nearest(i)
       IN  IF c = 0
           THEN UNCHANGED subDf
           ELSE subDf' = Append(subDf,
                    [refMz |-> ref[i].mz, refRt |-> ref[i].RT,
                     refIntensity |-> ref[i].intensity,
                     compMz |-> comp[c].mz, compRt |-> comp[c].RT,
                     compIntensity |-> comp[c].intensity])
    /\ i' = i + 1
    /\ UNCHANGED <<extVars, pc, err, ref, comp, pool, sdVars, d, globalVars>>

(* lines 229-230 *)
F_Return ==
    /\ pc = "floop"
    /\ i > Len(ref)
    /\ pc' = "fdone"
    /\ UNCHANGED <<extVars, err, ref, comp, pool, sdVars, i, d, subDf, globalVars>>

FindNext == F_Start \/ F_Step \/ F_Return

(* findMatchedSubset on its own, on the tables and SDs of SpecMatch *)
FindInit ==
    /\ ExtIdle
    /\ pc = "fstart"
    /\ err = "none"
    /\ ref \in RefTables(MaxRef)
    /\ comp \in Tables(CompAttrs, MaxComp)
    /\ pool = {}
    /\ sdWidth \in SdWidthSet
    /\ rtSdIn \in SdArrays(RtSdSet, Len(ref))
    /\ mzSdIn \in SdArrays(MzSdSet, Len(ref))
    /\ rtSd = <<>>
    /\ mzSd = <<>>
    /\ i = 1
    /\ d = <<>>
    /\ subDf = <<>>
    /\ GlobalIdle

SpecFind == FindInit /\ [][FindNext]_vars

----------------------------------------------------------------------------
(* matchFeatures and findMatchedSubset on SD inputs that hold zeros *)

FloorRefAttrs == [mz : RefMzSet, RT : RefRtSet, z : {1}, intensity : {1}]
FloorCompAttrs ==
    {[mz |-> p[2], RT |-> p[1], z |-> 1, intensity |-> 1] : p \in CompPlaces}

FloorInit ==
    /\ ExtIdle
    /\ pc \in {"start", "fstart"}
    /\ err = "none"
    /\ ref \in Tables(FloorRefAttrs, MaxSdLen)
    /\ comp \in Tables(FloorCompAttrs, 1)
    /\ pool = {}
    /\ sdWidth \in SdWidthSet
    /\ rtSdIn \in SdScalars(FloorRtSdSet) \cup SdArrays(FloorRtSdSet, Len(ref))
    /\ mzSdIn \in SdScalars(FloorMzSdSet) \cup SdArrays(FloorMzSdSet, Len(ref))
    /\ rtSd = <<>>
    /\ mzSd = <<>>
    /\ i = 1
    /\ d = <<>>
    /\ subDf = <<>>
    /\ GlobalIdle

FloorNext == M_Start \/ M_Step \/ M_Return \/ F_Start \/ F_Step \/ F_Return

SpecFloor == FloorInit /\ [][FloorNext]_vars

----------------------------------------------------------------------------
(* globalCalibration, called by calibrateFeatures on the sorted tables *)

(* round(0.05 * n): Python rounds a tie to the even integer *)
Round5Pct(n) ==
    LET q == (5 * n) \div 100
        r == (5 * n) % 100
    IN  IF r < 50 THEN q
        ELSE IF r > 50 THEN q + 1
        ELSE IF q % 2 = 0 THEN q ELSE q + 1

(* 100 * np.percentile(s, q) for a non-empty s: linear interpolation between
   the two order statistics around the position q / 100 * (len(s) - 1) *)
Percentile100(s, q) ==
    LET a == SortAsc(s)
        pos == q * (Len(s) - 1)
        lo == pos \div 100 + 1
        hi == IF lo < Len(s) THEN lo + 1 ELSE lo
    IN  100 * a[lo] + (pos % 100) * (a[hi] - a[lo])

(* s[(s >= np.percentile(s, 10)) & (s <= np.percentile(s, 90))] *)
TrimKeeps(s, x) ==
    /\ 100 * x >= Percentile100(s, 10)
    /\ 100 * x <= Percentile100(s, 90)

Trim(s) == SelectSeq(s, LAMBDA x : TrimKeeps(s, x))

(* lL and uL of lines 74-75; mz * mzTol is a multiple of 10^6 for the m/z
   values of the model *)
LowerLimit(mz, tol) == mz - (mz * tol) \div 1000000
UpperLimit(mz, tol) == mz + (mz * tol) \div 1000000

(* Window with the upper limit included *)
WindowClosed(k) ==
    LET z == ref[k].z
        lL == LowerLimit(ref[k].mz, initMzTol)
        uL == UpperLimit(ref[k].mz, initMzTol)
    IN  {c \in pool : /\ comp[c].mz >= lL
                      /\ comp[c].mz <= uL
                      /\ (z = 0 \/ comp[c].z = z)}

(* rowInd of lines 77-83: rows of comp in the window of ref row k *)
Window(k) ==
    LET z == ref[k].z
        lL == LowerLimit(ref[k].mz, initMzTol)
        uL == UpperLimit(ref[k].mz, initMzTol)
    IN  {c \in pool : /\ comp[c].mz >= lL
                      /\ comp[c].mz < uL
                      /\ (z = 0 \/ comp[c].z = z)}

(* (comp["mz"][rowInd] - mz) / mz * 1e6, an integer for the m/z values of the
   model *)
PpmShift(r, c) ==
    LET num == (c.mz - r.mz) * 1000000
    IN  IF num >= 0 THEN num \div r.mz ELSE -((-num) \div r.mz)

(* DropRow that leaves the row in the table *)
DropRowNothing(p, c) == p

(* comp = comp.drop(rowInd), line 88 *)
DropRow(p, c) == p \ {c}

\* reference tables of SpecGlobal: the leading rows, listed in ascending
\* intensity, followed by n rows of PadFeature
GRefTables ==
    UNION {{MkTable([k \in 1..Len(a) |->
                        [mz |-> a[k].mz, RT |-> a[k].RT, z |-> a[k].z, intensity |-> k]]
                    \o [k \in 1..n |-> PadFeature]) :
                a \in UNION {[1..m -> [mz : RefMzSet, RT : RefRtSet, z : RefChargeSet]] :
                             m \in 1..MaxHead}} :
           n \in PadSet}

GCompAttrs ==
    {[mz |-> p[2], RT |-> p[1], z |-> z, intensity |-> a] :
        p \in GCompPlaces, z \in GCompChargeSet, a \in IntensitySet}

GlobalInit ==
    /\ ExtIdle
    /\ pc = "gstart"
    /\ err = "none"
    /\ ref \in GRefTables
    /\ comp \in Tables(GCompAttrs, MaxGComp)
    /\ pool = {}
    /\ sdWidth \in SdWidthSet
    /\ rtSdIn = [kind |-> "scalar", v |-> 0]
    /\ mzSdIn = [kind |-> "scalar", v |-> 0]
    /\ rtSd = <<>>
    /\ mzSd = <<>>
    /\ i = 1
    /\ d = <<>>
    /\ subDf = <<>>
    /\ initMzTol \in MzTolSet
    /\ nPeaks = 0
    /\ j = 1
    /\ rtShifts = <<>>
    /\ mzShifts = <<>>
    /\ ret = [rtShifts |-> <<>>, mzShifts |-> <<>>]

(* calibrateFeatures lines 22-25 and globalCalibration lines 67-70 *)
G_Start ==
    /\ pc = "gstart"
    /\ ref' = SortDesc(ref)
    /\ comp' = SortDesc(comp)
    /\ pool' = 1..Len(comp)
    /\ nPeaks' = Round5Pct(Len(ref))
    /\ rtShifts' = <<>>
    /\ mzShifts' = <<>>
    /\ i' = 1
    /\ j' = 1
    /\ pc' = "gloop"
    /\ UNCHANGED <<extVars, err, sdVars, d, subDf, initMzTol, ret>>

(* one iteration of the loop of lines 71-91; ref["z"][i] raises KeyError when
   i is past the last row.  d keeps the pair of features behind each sample. *)
G_Step ==
    /\ pc = "gloop"
    /\ j <= nPeaks
    /\ IF i > Len(ref)
       THEN /\ pc' = "error"
            /\ err' = "KeyError"
            /\ UNCHANGED <<extVars, pool, i, j, rtShifts, mzShifts, d>>
       ELSE /\ LET rowInd == Window(i)
               IN  IF rowInd # {}
                   THEN LET c == MinOf(rowInd)
                        IN  /\ rtShifts' = Append(rtShifts, comp[c].RT - ref[i].RT)
                            /\ mzShifts' = Append(mzShifts, PpmShift(ref[i], comp[c]))
                            /\ d' = Append(d, [ref |-> ref[i], comp |-> comp[c]])
                            /\ pool' = DropRow(pool, c)
                            /\ j' = j + 1
                   ELSE UNCHANGED <<pool, j, rtShifts, mzShifts, d>>
            /\ i' = i + 1
            /\ UNCHANGED <<extVars, pc, err>>
    /\ UNCHANGED <<extVars, ref, comp, sdVars, subDf, initMzTol, nPeaks, ret>>

(* lines 93-100 on a non-empty sample *)
G_Trim ==
    /\ pc = "gloop"
    /\ j > nPeaks
    /\ rtShifts # <<>>
    /\ ret' = [rtShifts |-> Trim(rtShifts), mzShifts |-> Trim(mzShifts)]
    /\ pc' = "gdone"
    /\ UNCHANGED <<extVars, err, ref, comp, pool, sdVars, i, d, subDf,
                   initMzTol, nPeaks, j, rtShifts, mzShifts>>

(* lines 93-100 on an empty sample: np.percentile of an empty array is nan
   (every comparison is False, the result is empty) ... *)
G_TrimEmptyNan ==
    /\ pc = "gloop"
    /\ j > nPeaks
    /\ rtShifts = <<>>
    /\ ret' = [rtShifts |-> <<>>, mzShifts |-> <<>>]
    /\ pc' = "gdone"
    /\ UNCHANGED <<extVars, err, ref, comp, pool, sdVars, i, d, subDf,
                   initMzTol, nPeaks, j, rtShifts, mzShifts>>

(* ... or, depending on the numpy release, raises IndexError *)
G_TrimEmptyRaises ==
    /\ pc = "gloop"
    /\ j > nPeaks
    /\ rtShifts = <<>>
    /\ pc' = "error"
    /\ err' = "IndexError"
    /\ UNCHANGED <<extVars, ref, comp, pool, sdVars, i, d, subDf, globalVars>>

GlobalNext == G_Start \/ G_Step \/ G_Trim \/ G_TrimEmptyNan \/ G_TrimEmptyRaises

SpecGlobal == GlobalInit /\ [][GlobalNext]_vars

----------------------------------------------------------------------------
(* globalCalibration of a run against itself (comp holds the features of ref) *)

\* leading reference rows 10 ppm and 2 s apart, so that each lies in the
\* window of the other
RoundMzSet == {1000000, 1000010}
RoundRtSet == {60, 62}

RoundTables ==
    UNION {{MkTable(a \o [k \in 1..n |-> PadFeature]) :
                a \in UNION {[1..m -> [mz : RoundMzSet, RT : RoundRtSet,
                                      z : RefChargeSet, intensity : IntensitySet]] :
                             m \in 1..MaxHead}} :
           n \in PadSet}

RoundInit ==
    /\ ExtIdle
    /\ pc = "gstart"
    /\ err = "none"
    /\ ref \in RoundTables
    /\ comp = ref
    /\ pool = {}
    /\ sdWidth \in SdWidthSet
    /\ rtSdIn = [kind |-> "scalar", v |-> 0]
    /\ mzSdIn = [kind |-> "scalar", v |-> 0]
    /\ rtSd = <<>>
    /\ mzSd = <<>>
    /\ i = 1
    /\ d = <<>>
    /\ subDf = <<>>
    /\ initMzTol \in MzTolSet
    /\ nPeaks = 0
    /\ j = 1
    /\ rtShifts = <<>>
    /\ mzShifts = <<>>
    /\ ret = [rtShifts |-> <<>>, mzShifts |-> <<>>]

SpecRound == RoundInit /\ [][GlobalNext]_vars

----------------------------------------------------------------------------
(* main: the calibration loop (lines 641-653), calibrateFeatures and
   localCalibration, followed by the call of alignFeatures (line 675) *)

\* the two leading features of a run of SpecCalib, listed in ascending
\* intensity, and the number of PadFeature rows that may follow them
CalibHead ==
    <<[mz |-> 1000000, RT |-> 60, z |-> 1, intensity |-> 2],
      [mz |-> 1500000, RT |-> 70, z |-> 0, intensity |-> 3]>>
CalibPadSet == {28}
\* (RT-shift, m/z-shift in ppm) of a run against the unshifted one
CalibShiftSet == {<<0, 0>>, <<2, 10>>}

Shifted(f, rt, ppm) ==
    [mz |-> f.mz + (f.mz * ppm) \div 1000000, RT |-> f.RT + rt, z |-> f.z,
     intensity |-> f.intensity]

\* the runs of SpecCalib: long runs whose leading features differ by a
\* constant shift and whose other features are one RT unit and 1 ppm further
\* away, a run of two features with unequal shifts, and a run of a single
\* feature
CalibTables ==
    {MkTable([k \in 1..2 |-> Shifted(CalibHead[k], sh[1], sh[2])]
             \o [k \in 1..n |-> Shifted(PadFeature, sh[1] + sh[1] \div 2,
                                        sh[2] + sh[2] \div 10)]) :
        sh \in CalibShiftSet, n \in CalibPadSet}
    \cup {MkTable(<<Shifted(CalibHead[1], 1, 10), Shifted(CalibHead[2], 3, 10)>>),
          MkTable(<<CalibHead[1]>>)}

\* the shift (per pass, in RT units or ppm) that the fitted LOESS curve
\* predicts for the compared features, and the (RT, m/z) SD it predicts for
\* the reference features
LoessShiftSet == {1, 5}
LoessSdSet == {<<1, 1>>}

CalibInit ==
    /\ caller = "calibrate"
    /\ \E n \in 2..MaxCalibRuns : fArray \in [1..n -> CalibTables]
    /\ refNo \in 1..Len(fArray)
    /\ run = 1
    /\ indArray = <<>>
    /\ result = [kind |-> "none"]
    /\ pctFull = 100
    /\ refInd = <<>>
    /\ compInd = <<>>
    /\ rescueIn = NoRescue
    /\ refParam = "0"
    /\ refIntensity = 0
    /\ rtSdArray = <<>>
    /\ mzSdArray = <<>>
    /\ pass = 0
    /\ shifts = NoShifts
    /\ msg = ""
    /\ pc = "cloop"
    /\ err = "none"
    /\ ref = <<>>
    /\ comp = <<>>
    /\ pool = {}
    /\ sdWidth \in SdWidthSet
    /\ rtSdIn = [kind |-> "NA"]
    /\ mzSdIn = [kind |-> "NA"]
    /\ rtSd = <<>>
    /\ mzSd = <<>>
    /\ i = 1
    /\ d = <<>>
    /\ subDf = <<>>
    /\ initMzTol \in MzTolSet
    /\ nPeaks = 0
    /\ j = 1
    /\ rtShifts = <<>>
    /\ mzShifts = <<>>
    /\ ret = [rtShifts |-> <<>>, mzShifts |-> <<>>]

(* lines 651-653, i == refNo *)
L_Skip ==
    /\ pc = "cloop"
    /\ run <= Len(fArray)
    /\ run = refNo
    /\ rtSdArray' = Append(rtSdArray, [kind |-> "NA"])
    /\ mzSdArray' = Append(mzSdArray, [kind |-> "NA"])
    /\ run' = run + 1
    /\ UNCHANGED <<pc, err, ref, comp, pool, sdVars, i, d, subDf, globalVars, caller,
                   fArray, refNo, indArray, result, pctFull, rescueVars, selectVars,
                   pass, shifts, msg>>

(* lines 646-648, the call calibrateFeatures(fArray[refNo], fArray[i], params):
   the parameters ref and comp are bound to the two tables *)
L_Call ==
    /\ pc = "cloop"
    /\ run <= Len(fArray)
    /\ run # refNo
    /\ ref' = fArray[refNo]
    /\ comp' = fArray[run]
    /\ pool' = {}
    /\ i' = 1
    /\ d' = <<>>
    /\ subDf' = <<>>
    /\ ret' = [rtShifts |-> <<>>, mzShifts |-> <<>>]
    /\ pass' = 0
    /\ msg' = "is being aligned against the reference run (it may take a while)"
    /\ pc' = "gstart"
    /\ UNCHANGED <<err, sdVars, initMzTol, nPeaks, j, rtShifts, mzShifts, caller,
                   alignVars, rescueVars, selectVars, rtSdArray, mzSdArray, shifts>>

RECURSIVE SumSeq(_)
SumSeq(s) == IF s = <<>> THEN 0 ELSE Head(s) + SumSeq(Tail(s))

Isqrt(x) == CHOOSE r \in 0..x : r * r <= x /\ (r + 1) * (r + 1) > x

(* np.maximum(1e-3, ...): 1e-3 is below the unit of the model, the smallest
   positive SD stands for it *)
SdFloor == 1

(* np.maximum(1e-3, np.std(s, ddof = 1)), in whole units; the SD of fewer than
   two values is nan, and np.maximum passes nan on *)
StdOrFloor(s) ==
    LET n == Len(s)
        ss == SumSeq([k \in 1..n |-> (n * s[k] - SumSeq(s)) * (n * s[k] - SumSeq(s))])
        sd == Isqrt(ss \div (n * n * (n - 1)))
    IN  IF n < 2 THEN NaN
        ELSE IF sd < SdFloor THEN SdFloor ELSE sd

(* comp["RT"] - np.median(rtShifts) and comp["mz"] / (1 + np.median(mzShifts) / 1e6)
   (lines 34-35) for one feature, in whole units; the median of an empty
   sample is nan and so are the results *)
GloballyCalibrated(f, rt, mz) ==
    IF rt = <<>> THEN [f EXCEPT !.RT = NaN, !.mz = NaN]
    ELSE [f EXCEPT !.RT = (2 * @ - Median2(SortAsc(rt))) \div 2,
                   !.mz = @ - (@ * Median2(SortAsc(mz))) \div 2000000]

(* lines 28-45: the medians of the shifts returned by globalCalibration are
   taken off comp, the sorted copy of line 25; then the first call of
   localCalibration, which calls findMatchedSubset *)
Cal_Global ==
    /\ pc = "gdone"
    /\ caller = "calibrate"
    /\ comp' = [k \in DOMAIN comp |->
                   GloballyCalibrated(comp[k], ret.rtShifts, ret.mzShifts)]
    /\ rtSdIn' = [kind |-> "scalar", v |-> StdOrFloor(ret.rtShifts)]
    /\ mzSdIn' = [kind |-> "scalar", v |-> StdOrFloor(ret.mzShifts)]
    /\ pass' = 1
    /\ i' = 1
    /\ subDf' = <<>>
    /\ msg' = "LOESS modeling may take some time. Please be patient ..."
    /\ pc' = "fstart"
    /\ UNCHANGED <<err, ref, pool, sdWidth, rtSd, mzSd, d, globalVars, caller,
                   alignVars, rescueVars, selectVars, rtSdArray, mzSdArray, shifts>>

(* PassType that alternates RT and m/z *)
PassTypeAlternating(p) == IF p \in {1, 3} THEN "RT" ELSE "mz"

(* type of the pass: "RT" for the first two calls of localCalibration, "mz"
   for the last two (lines 46-61) *)
PassType(p) == IF p <= 2 THEN "RT" ELSE "mz"

(* comp["RT"] - predict(mod, comp["RT"]) (line 279) and
   comp["mz"] / (1 + predict(mod, comp["mz"]) / 1e6) (line 299) for one
   feature, s being the prediction of the LOESS model *)
LocallyCalibrated(f, type, s) ==
    IF type = "RT" THEN [f EXCEPT !.RT = @ - s]
    ELSE [f EXCEPT !.mz = @ - (@ * s) \div 1000000]

(* the shifts of the matched rows on the axis ("RT": compRt - refRt,
   "mz": (compMz - refMz) / refMz * 1e6), c being the values of the compared
   features ("RT": seconds, "mz": m/z) *)
SampleOf(sub, axis, c) ==
    [k \in DOMAIN sub |->
        IF axis = "RT" THEN c[k] - sub[k].refRt
        ELSE PpmShift([mz |-> sub[k].refMz], [mz |-> c[k]])]

(* (refRt == compRt).all() and (refMz == compMz).all() *)
AllEqual(sub, axis, c) ==
    \A k \in DOMAIN sub : c[k] = (IF axis = "RT" THEN sub[k].refRt ELSE sub[k].refMz)

(* np.random.normal(n) is one number drawn around n, not n numbers: the
   jitter is a scalar (n = 0: it has no length) *)
Jitter(n) == [kind |-> "jitter", n |-> 0, v |-> <<>>]

(* the if / else of lines 242-246, 251-254, 262-265, 281-284, 288-291 and
   295-298 *)
GuardedShifts(sub, axis, c) ==
    IF AllEqual(sub, axis, c) THEN Jitter(Len(sub))
    ELSE [kind |-> "sample", n |-> Len(sub), v |-> SampleOf(sub, axis, c)]

(* compRt and compMz of the matched rows *)
CompOf(sub, axis) ==
    [k \in DOMAIN sub |-> IF axis = "RT" THEN sub[k].compRt ELSE sub[k].compMz]

(* lines 234-246 and 281-284: subDf["refRt"] raises KeyError when no row was
   matched; otherwise the shifts of the axis of the pass are made ready for
   the regression *)
Cal_Shifts ==
    /\ pc = "fdone"
    /\ caller = "calibrate"
    /\ IF subDf = <<>>
       THEN /\ pc' = "error"
            /\ err' = "KeyError"
            /\ shifts' = shifts
       ELSE /\ shifts' = GuardedShifts(subDf, PassType(pass),
                                       CompOf(subDf, PassType(pass)))
            /\ pc' = "lfit"
            /\ err' = err
    /\ UNCHANGED <<ref, comp, pool, sdVars, i, d, subDf, globalVars, caller, alignVars,
                   rescueVars, selectVars, rtSdArray, mzSdArray, pass, msg>>

(* compRt - fitted (line 248) and compMz * (1 + fitted / 1e6) (line 286), the
   matched rows after the fit, s being the fitted shift *)
FittedComp(sub, type, s) ==
    [k \in DOMAIN sub |->
        IF type = "RT" THEN sub[k].compRt - s
        ELSE sub[k].compMz + (sub[k].compMz * s) \div 1000000]

(* what the rest of the pass raises, "none" when it completes: FloatVector of
   a scalar raises TypeError (lines 247, 266, 285, 293), indexing a scalar
   raises IndexError (lines 257, 301) *)
PassError(sub, type, y, s) ==
    IF y.kind = "jitter" THEN "TypeError"
    ELSE IF type = "RT"
    THEN IF AllEqual(sub, "RT", FittedComp(sub, "RT", s)) THEN "IndexError"
         ELSE IF AllEqual(sub, "mz", CompOf(sub, "mz")) THEN "TypeError"
         ELSE "none"
    ELSE IF AllEqual(sub, "mz", FittedComp(sub, "mz", s)) THEN "TypeError"
         ELSE IF AllEqual(sub, "RT", CompOf(sub, "RT")) THEN "IndexError"
         ELSE "none"

(* lines 247-279 and 285-301: the regression is fitted on the shifts, the SDs
   are predicted for every reference feature and one column of comp is
   calibrated; then the next call of localCalibration, or the return of
   line 63 *)
Cal_Local ==
    /\ pc = "lfit"
    /\ caller = "calibrate"
    /\ \E s \in LoessShiftSet, sd \in LoessSdSet :
          IF PassError(subDf, PassType(pass), shifts, s) # "none"
          THEN /\ pc' = "error"
               /\ err' = PassError(subDf, PassType(pass), shifts, s)
               /\ UNCHANGED <<comp, rtSdIn, mzSdIn, pass, i, subDf>>
          ELSE /\ comp' = [k \in DOMAIN comp |->
                              LocallyCalibrated(comp[k], PassType(pass), s)]
               /\ rtSdIn' = [kind |-> "array", v |-> [k \in DOMAIN ref |-> sd[1]]]
               /\ mzSdIn' = [kind |-> "array", v |-> [k \in DOMAIN ref |-> sd[2]]]
               /\ IF pass < 4
                  THEN /\ pass' = pass + 1
                       /\ i' = 1
                       /\ subDf' = <<>>
                       /\ pc' = "fstart"
                  ELSE /\ pc' = "creturn"
                       /\ UNCHANGED <<pass, i, subDf>>
               /\ err' = err
    /\ UNCHANGED <<ref, pool, sdWidth, rtSd, mzSd, d, globalVars, caller, alignVars,
                   rescueVars, selectVars, rtSdArray, mzSdArray, shifts, msg>>

(* the LOESS fit is made by R (rpy2): it may raise instead of returning a model *)
Cal_LoessRaises ==
    /\ pc = "lfit"
    /\ caller = "calibrate"
    /\ pc' = "error"
    /\ err' = "RRuntimeError"
    /\ UNCHANGED <<ref, comp, pool, sdVars, i, d, subDf, globalVars, extVars>>

(* StoreRun that drops the calibrated table *)
StoreRunNothing(fa, k, t) == fa

(* StoreRun that also sorts the reference table in place *)
StoreRunSortsRef(fa, k, t) == [fa EXCEPT ![k] = t, ![refNo] = SortDesc(@)]

(* fArray[i] = <the calibrated table returned by calibrateFeatures>, line 648 *)
StoreRun(fa, k, t) == [fa EXCEPT ![k] = t]

(* line 63 and lines 648-650 *)
Cal_Return ==
    /\ pc = "creturn"
    /\ fArray' = StoreRun(fArray, run, comp)
    /\ rtSdArray' = Append(rtSdArray, rtSdIn)
    /\ mzSdArray' = Append(mzSdArray, mzSdIn)
    /\ run' = run + 1
    /\ pc' = "cloop"
    /\ UNCHANGED <<err, ref, comp, pool, sdVars, i, d, subDf, globalVars, caller,
                   refNo, indArray, result, pctFull, rescueVars, selectVars, pass,
                   shifts, msg>>

(* lines 655-675: the summary is printed and alignFeatures is called *)
L_Done ==
    /\ pc = "cloop"
    /\ run > Len(fArray)
    /\ caller' = "align"
    /\ msg' = "Feature alignment"
    /\ pc' = "astart"
    /\ UNCHANGED <<err, ref, comp, pool, sdVars, i, d, subDf, globalVars, alignVars,
                   rescueVars, selectVars, calibVars>>

CalibNext ==
    \/ L_Skip \/ L_Call \/ GlobalNext \/ Cal_Global \/ FindNext \/ Cal_Shifts \/ Cal_Local
    \/ Cal_LoessRaises \/ Cal_Return \/ L_Done \/ AlignNext

SpecCalib == CalibInit /\ [][CalibNext]_vars

----------------------------------------------------------------------------
(* localCalibration on its own: a call of any of the four passes *)

\* row k of the reference table of SpecLocal
LocalRefRow(k) ==
    [mz |-> k * 1000000, RT |-> 30 + 30 * k, z |-> 1, intensity |-> 10 - k]
\* (RT-shift, m/z-shift in ppm) of a compared feature against its reference
LocalShiftSet == {<<0, 0>>, <<1, 0>>, <<0, 1>>, <<1, 1>>}

LocalInit ==
    /\ caller = "calibrate"
    /\ fArray = <<>>
    /\ refNo = 0
    /\ run = 0
    /\ indArray = <<>>
    /\ result = [kind |-> "none"]
    /\ pctFull = 100
    /\ refInd = <<>>
    /\ compInd = <<>>
    /\ rescueIn = NoRescue
    /\ refParam = "0"
    /\ refIntensity = 0
    /\ rtSdArray = <<>>
    /\ mzSdArray = <<>>
    /\ pass \in 1..4
    /\ shifts = NoShifts
    /\ msg = ""
    /\ pc = "fstart"
    /\ err = "none"
    /\ \E n \in 1..MaxLocalRows : \E sh \in [1..n -> LocalShiftSet] :
          /\ ref = MkTable([k \in 1..n |-> LocalRefRow(k)])
          /\ comp = MkTable([k \in 1..n |->
                                Shifted(LocalRefRow(k), sh[k][1], sh[k][2])])
    /\ pool = {}
    /\ sdWidth \in SdWidthSet
    /\ rtSdIn = [kind |-> "array", v |-> [k \in DOMAIN ref |-> 1]]
    /\ mzSdIn = [kind |-> "array", v |-> [k \in DOMAIN ref |-> 1]]
    /\ rtSd = <<>>
    /\ mzSd = <<>>
    /\ i = 1
    /\ d = <<>>
    /\ subDf = <<>>
    /\ GlobalIdle

LocalNext == FindNext \/ Cal_Shifts \/ Cal_Local \/ Cal_LoessRaises

SpecLocal == LocalInit /\ [][LocalNext]_vars

----------------------------------------------------------------------------
(* Properties of matchFeatures *)

(* position in ref (intensity-descending order) of the reference feature of a pair *)
RefPos(pair) == CHOOSE k \in DOMAIN ref : ref[k].index = pair.ref.index

(* C1: the pairs returned by matchFeatures are one-to-one: no reference feature
   and no compared feature occurs in two pairs. *)
C1_OneToOne ==
    \A a, b \in DOMAIN d :
        a # b => /\ d[a].ref.index # d[b].ref.index
                 /\ d[a].comp.index # d[b].comp.index

(* two pairs were returned, and the compared feature of the first pair is also
   within the tolerance of the second reference feature *)
C1_Witness ==
    /\ pc = "done"
    /\ Len(d) = 2
    /\ Abs(d[1].comp.RT - d[2].ref.RT) <= rtSd[RefPos(d[2])] * sdWidth
    /\ Abs(d[1].comp.mz - d[2].ref.mz) * 1000000
           <= mzSd[RefPos(d[2])] * sdWidth * d[2].ref.mz
    /\ d[1].comp.intensity > d[2].comp.intensity

(* C2: every returned pair is charge-compatible: equal charges, or one of the
   two charges is 0. *)
C2_ChargeCompatible ==
    \A a \in DOMAIN d :
        \/ d[a].ref.z = d[a].comp.z
        \/ d[a].ref.z = 0
        \/ d[a].comp.z = 0

(* a charged reference feature was paired with a feature of its own charge while
   a more intense feature of another non-zero charge is left in the pool *)
C2_Witness ==
    /\ pc = "done"
    /\ \E a \in DOMAIN d :
          /\ d[a].ref.z # 0
          /\ d[a].comp.z = d[a].ref.z
          /\ \E c \in pool :
                /\ comp[c].z \notin {0, d[a].ref.z}
                /\ comp[c].intensity > d[a].comp.intensity
                /\ Abs(comp[c].RT - d[a].ref.RT) <= rtSd[RefPos(d[a])] * sdWidth
                /\ Abs(comp[c].mz - d[a].ref.mz) * 1000000
                       <= mzSd[RefPos(d[a])] * sdWidth * d[a].ref.mz

(* rows of the pool within the dynamic tolerance of the reference row i *)
C3_InWindow ==
    {c \in pool :
        /\ Abs(comp[c].RT - ref[i].RT) <= rtSd[i] * sdWidth
        /\ Abs(comp[c].mz - ref[i].mz) * 1000000 <= mzSd[i] * sdWidth * ref[i].mz}

(* the most intense row of S (the earlier row among equally intense ones) *)
C3_MostIntense(S) ==
    CHOOSE c \in S : \A x \in S \ {c} :
        \/ comp[c].intensity > comp[x].intensity
        \/ comp[c].intensity = comp[x].intensity /\ c < x

C3_Picks(c) ==
    /\ d' = Append(d, [ref |-> ref[i], comp |-> comp[c]])
    /\ pool' = pool \ {c}

C3_PicksNone == d' = d /\ pool' = pool

(* C3: reference features are visited in descending intensity and each
   iteration follows the tie-break policy: reference charge 0 takes the most
   intense candidate; else a most intense candidate of charge 0 is taken; else
   the most intense candidate of the reference charge; else nothing is paired
   or removed. *)
C3_TieBreakPolicy ==
    [][(pc = "loop" /\ i <= Len(ref)) =>
        /\ \A k \in 1..(Len(ref) - 1) : ref[k].intensity >= ref[k + 1].intensity
        /\ i' = i + 1
        /\ LET cands == C3_InWindow
               same == {c \in cands : comp[c].z = ref[i].z}
           IN  IF cands = {} THEN C3_PicksNone
               ELSE IF ref[i].z = 0 THEN C3_Picks(C3_MostIntense(cands))
               ELSE IF comp[C3_MostIntense(cands)].z = 0
                    THEN C3_Picks(C3_MostIntense(cands))
               ELSE IF same # {} THEN C3_Picks(C3_MostIntense(same))
               ELSE C3_PicksNone]_vars

(* a charged reference feature was visited and left unpaired although a
   charge-0 feature within its tolerance is in the pool *)
C3_Witness ==
    /\ pc = "done"
    /\ \E k \in DOMAIN ref :
          /\ ref[k].z # 0
          /\ \A a \in DOMAIN d : d[a].ref.index # ref[k].index
          /\ \E c \in pool :
                /\ comp[c].z = 0
                /\ Abs(comp[c].RT - ref[k].RT) <= rtSd[k] * sdWidth
                /\ Abs(comp[c].mz - ref[k].mz) * 1000000
                       <= mzSd[k] * sdWidth * ref[k].mz

(* C4: every returned pair lies inside the dynamic tolerance of its reference
   feature, both bounds inclusive, the SD taken at the position of the
   reference feature in intensity-descending order. *)
C4_WithinTolerance ==
    \A a \in DOMAIN d :
        /\ Abs(d[a].comp.RT - d[a].ref.RT) <= rtSd[RefPos(d[a])] * sdWidth
        /\ Abs(d[a].comp.mz - d[a].ref.mz) * 1000000
               <= mzSd[RefPos(d[a])] * sdWidth * d[a].ref.mz

(* a pair sits exactly on both bounds of its window, and a more intense
   feature outside the window was passed over *)
C4_Witness ==
    /\ pc = "done"
    /\ \E a \in DOMAIN d :
          /\ Abs(d[a].comp.RT - d[a].ref.RT) = rtSd[RefPos(d[a])] * sdWidth
          /\ Abs(d[a].comp.mz - d[a].ref.mz) * 1000000
                 = mzSd[RefPos(d[a])] * sdWidth * d[a].ref.mz
          /\ \E c \in pool :
                /\ comp[c].intensity > d[a].comp.intensity
                /\ Abs(comp[c].mz - d[a].ref.mz) * 1000000
                       > mzSd[RefPos(d[a])] * sdWidth * d[a].ref.mz

----------------------------------------------------------------------------
(* Properties of the zero flooring of matchFeatures and findMatchedSubset *)

(* the SD array as the function receives it (a scalar is repeated) *)
C5_Given(sd) ==
    IF sd.kind = "array" THEN sd.v ELSE [k \in 1..Len(ref) |-> sd.v]

C5_Floored(given, floored) ==
    (\E k \in DOMAIN given : given[k] > 0) =>
        /\ DOMAIN floored = DOMAIN given
        /\ \A k \in DOMAIN given :
              /\ floored[k] # 0
              /\ given[k] # 0 => floored[k] = given[k]
              /\ given[k] = 0 =>
                    /\ \E m \in DOMAIN given : given[m] > 0 /\ floored[k] = given[m]
                    /\ \A m \in DOMAIN given : given[m] > 0 => floored[k] <= given[m]

(* C5: zero-floor: for an SD array with a positive entry, after the flooring
   step no entry is zero, every zero entry has become the minimum positive
   entry of the array, and every positive entry is unchanged (the m/z array is
   floored once the RT array has been). *)
C5_ZeroFloor ==
    pc \notin {"start", "fstart"} =>
        /\ C5_Floored(C5_Given(rtSdIn), rtSd)
        /\ err = "none" => C5_Floored(C5_Given(mzSdIn), mzSd)

(* matchFeatures or findMatchedSubset floored an RT array holding a zero and two different
   positive entries, and an m/z array holding a zero *)
C5_Witness ==
    /\ pc \in {"done", "fdone"}
    /\ rtSdIn.kind = "array"
    /\ mzSdIn.kind = "array"
    /\ \E k, a, b \in DOMAIN rtSdIn.v :
          rtSdIn.v[k] = 0 /\ rtSdIn.v[a] > rtSdIn.v[b] /\ rtSdIn.v[b] > 0
    /\ \E k, a \in DOMAIN mzSdIn.v : mzSdIn.v[k] = 0 /\ mzSdIn.v[a] > 0

(* C6: given an SD array whose entries are all zero, the flooring step
   completes without an error and leaves no zero entry. *)
C6_AllZeroFloored ==
    (/\ pc \notin {"start", "fstart"}
     /\ \/ rtSdIn.kind = "array" /\ \A k \in DOMAIN rtSdIn.v : rtSdIn.v[k] = 0
        \/ mzSdIn.kind = "array" /\ \A k \in DOMAIN mzSdIn.v : mzSdIn.v[k] = 0)
    => /\ err = "none"
       /\ \A k \in DOMAIN rtSd : rtSd[k] > 0
       /\ \A k \in DOMAIN mzSd : mzSd[k] > 0

----------------------------------------------------------------------------
(* Properties of globalCalibration *)

(* C7: no compared feature contributes more than one (rtShift, mzShift)
   sample: the samples are in one-to-one correspondence with the recorded
   pairs, and no compared feature occurs in two pairs. *)
C7_NoCompTwice ==
    pc = "gloop" =>
        /\ Len(rtShifts) = Len(d)
        /\ Len(mzShifts) = Len(d)
        /\ \A a, b \in DOMAIN d : a # b => d[a].comp.index # d[b].comp.index
        /\ \A a \in DOMAIN d : \A c \in pool : comp[c].index # d[a].comp.index

(* two samples were collected, and the feature behind the first one lies in
   the window of the second reference feature, with an admissible charge and
   a higher intensity than the feature that was taken for it *)
C7_Witness ==
    /\ pc = "gloop"
    /\ Len(d) = 2
    /\ d[1].comp.mz >= d[2].ref.mz - (d[2].ref.mz * initMzTol) \div 1000000
    /\ d[1].comp.mz < d[2].ref.mz + (d[2].ref.mz * initMzTol) \div 1000000
    /\ (d[2].ref.z = 0 \/ d[1].comp.z = d[2].ref.z)
    /\ d[1].comp.intensity > d[2].comp.intensity

(* C8: the scan terminates normally: it stops once nPeaks reference features
   have been matched or every reference feature has been visited, and never
   reads a reference row past the end of the table. *)
C8_ScanTerminates == err # "KeyError"

(* the most intense row of S (the earlier row among equally intense ones) *)
C9_MostIntense(S) ==
    CHOOSE c \in S : \A x \in S \ {c} :
        \/ comp[c].intensity > comp[x].intensity
        \/ comp[c].intensity = comp[x].intensity /\ c < x

(* C9: for each reference feature visited, the feature chosen is the most
   intense one in the pool whose m/z lies in the closed window
   [mz * (1 - tol), mz * (1 + tol)] and whose charge equals the reference
   charge (any charge when that is 0); when there is none nothing is recorded
   or removed. *)
C9_ClosedWindowChoice ==
    [][(pc = "gloop" /\ j <= nPeaks /\ i <= Len(ref)) =>
        LET mz == ref[i].mz
            z == ref[i].z
            W == {c \in pool :
                    /\ comp[c].mz >= mz - (mz * initMzTol) \div 1000000
                    /\ comp[c].mz <= mz + (mz * initMzTol) \div 1000000
                    /\ (z = 0 \/ comp[c].z = z)}
        IN  IF W = {}
            THEN /\ pool' = pool
                 /\ rtShifts' = rtShifts
                 /\ mzShifts' = mzShifts
            ELSE /\ pool' = pool \ {C9_MostIntense(W)}
                 /\ rtShifts' = Append(rtShifts, comp[C9_MostIntense(W)].RT - ref[i].RT)
                 /\ Len(mzShifts') = Len(mzShifts) + 1]_vars

(* number of occurrences of v in the sequence s *)
C10_Count(s, v) == Cardinality({k \in DOMAIN s : s[k] = v})

C10_Trimmed(sample, out) ==
    /\ \A v \in Range(out) : C10_Count(out, v) <= C10_Count(sample, v)
    /\ \A v \in Range(out) :
          /\ 100 * v >= Percentile100(sample, 10)
          /\ 100 * v <= Percentile100(sample, 90)
    /\ Len(out) <= Len(sample)
    /\ sample # <<>> => Len(out) >= 1

(* C10: the trimming returns, for each of rtShifts and mzShifts, a
   sub-multiset of the collected sample whose values lie between the 10th and
   the 90th percentile of the sample, of size at most the sample's and at
   least 1 when the sample is not empty. *)
C10_TrimSubset ==
    (pc = "gdone" /\ rtShifts # <<>>) =>
        /\ C10_Trimmed(rtShifts, ret.rtShifts)
        /\ C10_Trimmed(mzShifts, ret.mzShifts)

----------------------------------------------------------------------------
(* Round trip of globalCalibration *)

(* C11: when comp holds exactly the features of ref, every reference feature
   visited by globalCalibration is paired with its own copy, and every
   recorded RT shift and m/z shift is zero (tol_initial is at least 1 ppm). *)
C11_RoundTripZero ==
    pc \in {"gloop", "gdone", "error"} =>
        /\ Len(d) = i - 1
        /\ Len(rtShifts) = Len(d)
        /\ Len(mzShifts) = Len(d)
        /\ \A a \in DOMAIN d :
              /\ d[a].ref = ref[a]
              /\ d[a].comp.index = d[a].ref.index
              /\ rtShifts[a] = 0
              /\ mzShifts[a] = 0

(* two reference features were visited, and the copy of the first one, which
   is elsewhere in RT or m/z, lies in the window of the second one with an
   admissible charge *)
C11_Witness ==
    /\ pc = "gloop"
    /\ Len(d) = 2
    /\ (d[1].comp.RT # d[2].ref.RT \/ d[1].comp.mz # d[2].ref.mz)
    /\ d[1].comp.mz >= d[2].ref.mz - (d[2].ref.mz * initMzTol) \div 1000000
    /\ d[1].comp.mz < d[2].ref.mz + (d[2].ref.mz * initMzTol) \div 1000000
    /\ (d[2].ref.z = 0 \/ d[1].comp.z = d[2].ref.z)

----------------------------------------------------------------------------
(* The three-feature scenario of matchFeatures *)

(* C12: on the scenario (three reference features, comp the same features
   shifted by +2 ppm and +1.0 s, sd_width = 10, windows covering the shift)
   matchFeatures returns exactly 3 pairs, each reference feature with its own
   shifted copy, each pair charge-compatible. *)
C12_ScenarioThreePairs ==
    pc = "done" =>
        /\ Len(d) = 3
        /\ \A a \in 1..3 :
              /\ d[a].ref = ref[a]
              /\ d[a].comp.RT = d[a].ref.RT + 10
              /\ (d[a].comp.mz - d[a].ref.mz) * 1000000 = 2 * d[a].ref.mz
              /\ d[a].comp.intensity = d[a].ref.intensity
              /\ (d[a].ref.z = d[a].comp.z \/ d[a].ref.z = 0 \/ d[a].comp.z = 0)

(* three pairs were returned; one window was exactly 1.0 s wide and another
   one wide enough in RT to reach the other features *)
C12_Witness ==
    /\ pc = "done"
    /\ Len(d) = 3
    /\ \E k \in 1..3 : rtSd[k] * sdWidth = 10
    /\ \E k \in 1..3 : rtSd[k] * sdWidth >= 600

----------------------------------------------------------------------------
(* alignFeatures *)

AlignStopped == caller = "align" /\ pc \in {"adone", "error"}

(* the run being matched paired reference feature r *)
MatchedNow(r) == \E a \in DOMAIN d : d[a].ref.index = r

NRunsOf(r) == Cardinality({k \in 1..Len(fArray) : indArray[r][k] # -1})

CeilPct(pct, n) == (pct * n + 99) \div 100

(* C13: with 2 runs and pct_full_alignment = 50, alignFeatures returns a
   fully-aligned partition that holds every reference feature with no match
   in the other run. *)
C13_HalfPromotesUnmatched ==
    (AlignStopped /\ Len(fArray) = 2 /\ pctFull = 50) =>
        /\ result.kind = "returned"
        /\ \A r \in DOMAIN fArray[refNo] : ~MatchedNow(r) => r \in result.full

(* C14: alignFeatures returns partitions such that, with pct_full_alignment =
   100, full and partial are as built, and below 100 full is the built full
   plus exactly the partial rows matched in at least
   ceil(pct_full_alignment / 100 * numRuns) runs (the reference counted),
   partial keeps the others, and no row is lost or duplicated. *)
C14_PromotionFrame ==
    AlignStopped =>
        /\ result.kind = "returned"
        /\ result.full \cap result.partial = {}
        /\ result.full \cup result.partial = result.fullInd \cup result.partialInd
        /\ result.fullInd \subseteq result.full
        /\ \A r \in result.partialInd :
              r \in result.full <=>
                  (pctFull < 100 /\ NRunsOf(r) >= CeilPct(pctFull, Len(fArray)))

(* C15: before promotion alignFeatures has put every reference feature into
   exactly one of the classes fully-aligned, partially-aligned and unaligned;
   with two runs, fully-aligned iff it has a match in the other run and
   unaligned iff it has none. *)
C15_OneClass ==
    AlignStopped =>
        /\ result.kind = "returned"
        /\ \A r \in DOMAIN fArray[refNo] :
              /\ Cardinality({c \in {"fullInd", "partialInd", "unalignedRef"} :
                                 r \in result[c]}) = 1
              /\ Len(fArray) = 2 =>
                    /\ r \in result.fullInd <=> MatchedNow(r)
                    /\ r \in result.unalignedRef <=> ~MatchedNow(r)

(* C16: when alignFeatures is through with run j, the column of the reference
   run is the identity and cell [r, j] is the index of the feature the matcher
   paired with reference feature r, -1 if it paired none. *)
C16_MatrixEncodesMatches ==
    AlignStopped =>
        \A r \in DOMAIN indArray :
            /\ indArray[r][refNo] = r
            /\ \A a \in DOMAIN d :
                  d[a].ref.index = r => indArray[r][run] = d[a].comp.index
            /\ ~MatchedNow(r) => indArray[r][run] = -1

----------------------------------------------------------------------------
(* rescueFeatures *)

IsPrefix(s, t) == Len(s) <= Len(t) /\ SubSeq(t, 1, Len(s)) = s

(* C17: rescueFeatures only appends: at every point of the call, and in the
   lists it returns, the pairs it was given are at their positions,
   unchanged, and the two lists have the same length. *)
C17_OnlyAppends ==
    pc \in {"rloop", "rdone"} =>
        /\ IsPrefix(rescueIn.refInd, refInd)
        /\ IsPrefix(rescueIn.compInd, compInd)
        /\ Len(refInd) = Len(compInd)
        /\ pc = "rdone" => result.refInd = refInd /\ result.compInd = compInd

C17_Witness ==
    /\ pc = "rdone"
    /\ Len(result.refInd) = Len(rescueIn.refInd) + 2
    /\ IsPrefix(rescueIn.refInd, result.refInd)

----------------------------------------------------------------------------
(* Wrong settings *)

BadReference == refParam # "0" /\ refParam \notin Range(FeatureFiles)

BadUnit == rescueIn.rtTolUnit \notin {"1", "2"} \/ rescueIn.mzTolUnit \notin {"1", "2"}

(* once the setting has been looked at, the program has been ended with a
   message and has produced no result *)
Aborted ==
    /\ pc = "exit"
    /\ err = "SystemExit"
    /\ msg # ""
    /\ result.kind = "none"

(* C18 as stated: a reference_feature that names no input run, and a
   tolerance-unit code other than "1" or "2" given to rescueFeatures, both end
   the program with a message, and no result is produced. *)
C18_ConfigErrorsAbort ==
    /\ (pc \in {"sloop", "selected", "exit"} /\ BadReference) => Aborted
    /\ (pc \in {"rloop", "rdone", "exit"} /\ BadUnit) => Aborted

(* C18 amended: a reference_feature that names no input run ends the program
   with a message before any run is selected; a tolerance-unit code other than
   "1" or "2" does not end it: rescueFeatures prints a warning and returns the
   lists it was given, unchanged. *)
C18_BadReferenceAbortsBadUnitSkips ==
    /\ (pc \in {"sloop", "selected", "exit"} /\ BadReference) =>
          Aborted /\ refNo = 0
    /\ (pc \in {"rloop", "rdone", "exit"} /\ BadUnit) =>
          /\ pc = "rdone"
          /\ err = "none"
          /\ msg = "Due to incorrect parameter settings, the rescue step is skipped"
          /\ result.kind = "returned"
          /\ result.refInd = rescueIn.refInd
          /\ result.compInd = rescueIn.compInd

C18_Witness ==
    /\ BadReference
    /\ Aborted
    /\ Len(fArray) = 2
    /\ refParam = "f3"

----------------------------------------------------------------------------
(* Selection of the reference run *)

MedianOfRun(k) == Median2(TopIntensities(fArray[k]))

(* C19: with reference_feature = "0" no run has a larger median of its (up to)
   100 highest intensities than the selected run, and no later run has the
   same median. *)
C19_LargestMedianLastWins ==
    (pc = "selected" /\ refParam = "0") =>
        /\ refNo \in 1..Len(fArray)
        /\ \A k \in 1..Len(fArray) :
              /\ ~(MedianOfRun(k) # NaN /\ MedianOfRun(refNo) # NaN
                     /\ MedianOfRun(k) > MedianOfRun(refNo))
              /\ MedianOfRun(k) # NaN => MedianOfRun(refNo) # NaN
              /\ (k > refNo /\ MedianOfRun(k) # NaN) => MedianOfRun(k) # MedianOfRun(refNo)

(* the selected run is not the first, ties with an earlier run, beats another
   one, and has more than 100 features *)
C19_Witness ==
    /\ pc = "selected"
    /\ refParam = "0"
    /\ Len(fArray) = 3
    /\ refNo = 3
    /\ Len(fArray[3]) > TopN
    /\ MedianOfRun(2) = MedianOfRun(3)
    /\ MedianOfRun(1) # NaN
    /\ MedianOfRun(1) < MedianOfRun(3)

----------------------------------------------------------------------------
(* The tables of the runs during calibration and matching *)

(* t and u hold the same features: every feature keeps its index, charge and
   intensity *)
SameFeatures(t, u) ==
    /\ Len(t) = Len(u)
    /\ \A a \in DOMAIN t : \E b \in DOMAIN u :
          /\ u[b].index = t[a].index
          /\ u[b].z = t[a].z
          /\ u[b].intensity = t[a].intensity

(* C20: no step of the calibration loop or of the matching changes the table
   of the reference run (no field of any feature, nor the order of the rows)
   or which run is the reference; a step changes the table of at most one run,
   the non-reference run i being calibrated, and in it only RT and m/z: every
   feature of run i keeps its index, charge and intensity. *)
C20_ReferenceReadOnly ==
    [][/\ refNo' = refNo
       /\ Len(fArray') = Len(fArray)
       /\ fArray'[refNo] = fArray[refNo]
       /\ \A k \in DOMAIN fArray :
             fArray'[k] # fArray[k] =>
                 /\ k = run
                 /\ k # refNo
                 /\ SameFeatures(fArray[k], fArray'[k])]_vars

(* both other runs have been calibrated against the second run: their rows
   have moved and their RT and m/z are not those of any input table, while the
   reference table is as it was read, its rows not in intensity order *)
C20_Witness ==
    /\ pc = "cloop"
    /\ Len(fArray) = 3
    /\ run = 4
    /\ refNo = 2
    /\ fArray[2] \in CalibTables
    /\ fArray[2][1].intensity < fArray[2][2].intensity
    /\ \A k \in {1, 3} :
          /\ rtSdArray[k].kind = "array"
          /\ fArray[k][1].index = 2
          /\ fArray[k][1].RT = 68
          /\ fArray[k] \notin CalibTables

----------------------------------------------------------------------------
(* The passes of calibrateFeatures *)

(* the RT and the m/z of the feature of table t whose index is x *)
RtOf(t, x) == (CHOOSE f \in Range(t) : f.index = x).RT
MzOf(t, x) == (CHOOSE f \in Range(t) : f.index = x).mz

SameRt(t, u) == \A f \in Range(t) : RtOf(u, f.index) = f.RT
SameMz(t, u) == \A f \in Range(t) : MzOf(u, f.index) = f.mz

(* C21: within calibrateFeatures the global shift is applied once, before the
   first local pass; the local passes are numbered 1 to 4, the first two
   change RT only and the last two m/z only; every pass hands its comp, rtSd
   and mzSd to the next call of findMatchedSubset, which works on them; the
   RT and m/z of comp change at no other step; and what is stored for the
   run is the comp, rtSd and mzSd left by the fourth pass. *)
C21_FourPassesInOrder ==
    [][caller = "calibrate" =>
          /\ (pc = "gdone" /\ pc' # pc) => pass = 0 /\ pass' = 1 /\ pc' = "fstart"
          /\ (pc = "lfit" /\ pc' \notin {"lfit", "error"}) =>
                /\ pass \in 1..4
                /\ pass <= 2 => SameMz(comp, comp') /\ (\E s \in LoessShiftSet :
                                  \A f \in Range(comp) : RtOf(comp', f.index) = f.RT - s)
                /\ pass >= 3 => SameRt(comp, comp')
                /\ pass < 4 => pc' = "fstart" /\ pass' = pass + 1
                /\ pass = 4 => pc' = "creturn" /\ pass' = pass
          /\ (pc = "fstart" /\ pc' = "floop") =>
                /\ SameRt(comp, comp') /\ SameMz(comp, comp')
                /\ rtSd' = ZeroFloor(AsArray(rtSdIn, Len(ref)))
                /\ mzSd' = ZeroFloor(AsArray(mzSdIn, Len(ref)))
                /\ UNCHANGED <<rtSdIn, mzSdIn, pass>>
          /\ (pc \notin {"cloop", "gdone", "lfit"}) =>
                /\ pass' = pass
                /\ pc' # "error" => SameRt(comp, comp') /\ SameMz(comp, comp')
          /\ pc \in {"fstart", "floop", "fdone"} => UNCHANGED <<rtSdIn, mzSdIn>>
          /\ (pc = "creturn" /\ pc' # pc) =>
                /\ pass = 4
                /\ fArray'[run] = comp
                /\ rtSdArray'[run] = rtSdIn
                /\ mzSdArray'[run] = mzSdIn]_vars

(* the fourth pass has returned: RT has been moved by the global shift and
   two RT passes, m/z by two m/z passes *)
C21_Witness ==
    /\ caller = "calibrate"
    /\ pc = "creturn"
    /\ pass = 4
    /\ fArray[run][2].RT = 72
    /\ comp[1].index = 2
    /\ comp[1].RT = 68
    /\ comp[1].mz < 1500000
    /\ rtSdIn.kind = "array"

----------------------------------------------------------------------------
(* Order of calibration and matching over the runs *)

(* the calibration loop has visited every run *)
CalibrationOver == Len(rtSdArray) = Len(fArray) /\ Len(mzSdArray) = Len(fArray)

(* C22: the reference run never changes; calibrateFeatures and matchFeatures
   are called for non-reference runs only, with the table of the reference
   run as ref; what calibration leaves for a run is the comp and the SDs of
   its fourth local pass; matchFeatures is called for a run only when the
   calibration loop is over, on the table and the SD arrays that calibration
   left for that run, and these do not change any more. *)
C22_MatchAfterCalibration ==
    [][/\ refNo' = refNo
       /\ (pc = "cloop" /\ pc' = "gstart") =>
             /\ run # refNo
             /\ ref' = fArray[refNo]
             /\ comp' = fArray[run]
       /\ (pc = "creturn" /\ pc' = "cloop") =>
             /\ run # refNo
             /\ pass = 4
             /\ fArray'[run] = comp
             /\ rtSdArray'[run] = rtSdIn
             /\ mzSdArray'[run] = mzSdIn
       /\ (pc = "cloop" /\ run = refNo /\ run' # run) =>
             /\ fArray' = fArray
             /\ rtSdArray'[run].kind = "NA"
             /\ pc' = "cloop"
       /\ (pc = "aloop" /\ pc' = "start") =>
             /\ caller = "align"
             /\ CalibrationOver
             /\ run # refNo
             /\ rtSdArray[run].kind = "array"
             /\ mzSdArray[run].kind = "array"
             /\ ref' = fArray[refNo]
             /\ comp' = fArray[run]
             /\ rtSdIn' = rtSdArray[run]
             /\ mzSdIn' = mzSdArray[run]
       /\ pc' \in {"start", "loop", "done"} => caller' = "align"
       /\ caller = "align" => UNCHANGED <<fArray, rtSdArray, mzSdArray>>]_vars

(* matchFeatures has paired the features of a calibrated run with those of
   the reference run *)
C22_Witness ==
    /\ caller = "align"
    /\ pc = "done"
    /\ Len(fArray) = 3
    /\ run # refNo
    /\ Len(d) = Len(ref)
    /\ comp = SortDesc(fArray[run])
    /\ comp[1].RT = 68
    /\ ref = SortDesc(fArray[refNo])
    /\ fArray[refNo] \in CalibTables

----------------------------------------------------------------------------
(* The guard of localCalibration against identical shifts *)

(* the shifts of the matched rows on the axis of the pass *)
PassShifts == SampleOf(subDf, PassType(pass), CompOf(subDf, PassType(pass)))

AllIdentical(y) == \A a, b \in DOMAIN y : y[a] = y[b]

(* C23 as stated: when localCalibration has got its matched rows and makes
   the shifts ready for the regression, shifts that are all identical,
   whatever their common value, are replaced by a jitter sample of one value
   per matched row, and shifts that are not all identical are handed over
   unchanged. *)
C23_JitterPerPair ==
    [][(pc = "fdone" /\ pc' = "lfit") =>
          IF AllIdentical(PassShifts)
          THEN shifts'.kind = "jitter" /\ shifts'.n = Len(subDf)
          ELSE shifts' = [kind |-> "sample", n |-> Len(subDf), v |-> PassShifts]]_vars

----------------------------------------------------------------------------
(* Properties of findMatchedSubset *)

(* rows of comp within the dynamic tolerance of the reference row i *)
C24_InWindow ==
    {c \in DOMAIN comp :
        /\ Abs(comp[c].RT - ref[i].RT) <= rtSd[i] * sdWidth
        /\ Abs(comp[c].mz - ref[i].mz) * 1000000 <= mzSd[i] * sdWidth * ref[i].mz}

(* the rows of the window that the charge of the reference row i admits *)
C24_Admitted ==
    IF ref[i].z = 0 THEN C24_InWindow
    ELSE {c \in C24_InWindow : comp[c].z = ref[i].z}

(* the most intense row of S (the earlier row among equally intense ones) *)
C24_MostIntense(S) ==
    CHOOSE c \in S : \A x \in S \ {c} :
        \/ comp[c].intensity > comp[x].intensity
        \/ comp[c].intensity = comp[x].intensity /\ c < x

C24_Row(r, c) ==
    [refMz |-> r.mz, refRt |-> r.RT, refIntensity |-> r.intensity,
     compMz |-> c.mz, compRt |-> c.RT, compIntensity |-> c.intensity]

(* C24: an iteration of findMatchedSubset removes nothing from comp, so
   every row of comp stays available to the later reference rows; it reports
   the most intense row of comp that lies within the tolerance of the
   reference row and that its charge admits (any charge when the reference
   charge is 0, exactly the reference charge otherwise: charge 0 is not
   admitted for a charged reference row), and nothing when there is none. *)
C24_NearestNonDestructive ==
    [][(pc = "floop" /\ i <= Len(ref)) =>
          /\ comp' = comp
          /\ pool' = pool
          /\ pool = DOMAIN comp
          /\ i' = i + 1
          /\ IF C24_Admitted = {} THEN subDf' = subDf
             ELSE subDf' = Append(subDf,
                               C24_Row(ref[i], comp[C24_MostIntense(C24_Admitted)]))]_vars

(* the same row of comp is reported for both reference rows, while the other
   row of comp, more intense, of charge 0 and within the tolerance of the
   charged first reference row, is reported for none *)
C24_Witness ==
    /\ pc = "fdone"
    /\ Len(ref) = 2
    /\ Len(comp) = 2
    /\ Len(subDf) = 2
    /\ ref[1].z # 0
    /\ ref[2].z # 0
    /\ comp[1].z = 0
    /\ comp[1].intensity > comp[2].intensity
    /\ Abs(comp[1].RT - ref[1].RT) <= rtSd[1] * sdWidth
    /\ Abs(comp[1].mz - ref[1].mz) * 1000000 <= mzSd[1] * sdWidth * ref[1].mz
    /\ \A a \in 1..2 : subDf[a].compIntensity = comp[2].intensity

----------------------------------------------------------------------------
(* The pairs added by rescueFeatures *)

(* the unaligned rows of comp are in decreasing intensity order, as in the
   sorted table of matchFeatures *)
C25_USorted ==
    \A p, q \in DOMAIN UCompInd :
        p < q => comp[UCompInd[p]].intensity >= comp[UCompInd[q]].intensity

(* the rows of comp that qualify for row k of uRef *)
C25_Qualifying(k) == {UCompInd[p] : p \in {p \in DOMAIN UCompInd : Rescuable(k, p)}}

C25_MostIntense(S) ==
    CHOOSE c \in S : \A x \in S \ {c} :
        \/ comp[c].intensity > comp[x].intensity
        \/ comp[c].intensity = comp[x].intensity /\ c < x

C25_Adds(r, c) == refInd' = Append(refInd, r) /\ compInd' = Append(compInd, c)

(* C25 as stated: an iteration of rescueFeatures over the unaligned reference
   row i follows the tie-break policy of matchFeatures: with no qualifying
   row nothing is added; when the reference charge is 0 or the most intense
   qualifying row has charge 0, that row is added; otherwise the most intense
   qualifying row of the reference charge is added, and nothing when there is
   none.  So the charges of an added pair are equal, or one of them is 0. *)
C25_RescueTieBreak ==
    [][(pc = "rloop" /\ i <= Len(URefInd) /\ C25_USorted) =>
          LET q == C25_Qualifying(i)
              z == ref[URefInd[i]].z
              same == {c \in q : comp[c].z = z}
          IN  IF q = {} THEN UNCHANGED <<refInd, compInd>>
              ELSE IF z = 0 \/ comp[C25_MostIntense(q)].z = 0
                   THEN C25_Adds(URefInd[i], C25_MostIntense(q))
              ELSE IF same # {} THEN C25_Adds(URefInd[i], C25_MostIntense(same))
              ELSE UNCHANGED <<refInd, compInd>>]_vars

----------------------------------------------------------------------------
(* One-to-one matching after the rescue *)

NoRepeat(list) == \A a, b \in DOMAIN list : a # b => list[a] # list[b]

(* C26 as stated: the lists given to rescueFeatures holding no index twice,
   the lists it builds and returns hold no reference index twice and no
   compared index twice. *)
C26_RescueOneToOne ==
    (pc \in {"rloop", "rdone"} /\ NoRepeat(rescueIn.refInd) /\ NoRepeat(rescueIn.compInd)) =>
        /\ NoRepeat(refInd)
        /\ NoRepeat(compInd)
        /\ pc = "rdone" => NoRepeat(result.refInd) /\ NoRepeat(result.compInd)

====
